---- MODULE Spec2Model ----
(***************************************************************************)
(* Hierarchical gating engine of facsforge (core/gating_engine.py and      *)
(* core/thresholds.py), with the configuration loader (core/loader.py),    *)
(* the FlowJo v9 converter (cli/flowjo9_to_facsforge.py), the logicle      *)
(* initialisation (core/pita.py) and the web editor (webapp/app.py).       *)
(*                                                                         *)
(* Representation.  A channel name is the sequence of its whitespace-      *)
(* delimited tokens (the string is the tokens joined by single blanks).    *)
(* A column label is a channel name or the python tuple (detector,         *)
(* channel) of a two-level column index, written as the token sequence     *)
(* <tuple> detector <,> channel.  An event table is an object: `labels`    *)
(* gives the current column labels of each table object, and an entry of   *)
(* the result mapping is the set of row identifiers it holds together with *)
(* the table object it is (two entries can be one object).  The cell       *)
(* values of a row never change, so they are read from the root table      *)
(* through RawValue.  A non-integer number (a percentile, a histogram      *)
(* edge) is a fraction [num, den], den > 0.                                *)
(***************************************************************************)
EXTENDS Integers, Sequences, FiniteSets, TLC

(***************************************************************************)
(* Bounds of the model.                                                    *)
(***************************************************************************)
NPops == 3
NOthers == 1
NRows == 3
MaxTokens == 3
MaxVertices == 3
MaxRules == 2

(***************************************************************************)
(* Root event table and panel handed to _run_gating_tree.                  *)
(***************************************************************************)
PopNames == <<"A", "B", "C", "D", "E", "F">>
Names == {PopNames[i] : i \in 1..NPops}
CycleNames == {"A", "B", "C"} \cup {PopNames[3 + i] : i \in 1..NOthers}

\* cfg.get("parent"): None, a defined population, or a name defined nowhere.
None == "None"
Ghost == "Ghost"

Rows == 1..NRows

FSC_A == <<"FSC-A">>
SSC_A == <<"SSC-A">>
CD3 == <<"CD3">>
CD19 == <<"CD19">>
AF488 == <<"Alexa", "Fluor", "488-A">>

RawColumns == <<FSC_A, SSC_A, CD3, AF488>>

TupleTag == "<tuple>"
TupleSep == "<,>"
TupleLabel(first, second) == <<TupleTag>> \o first \o <<TupleSep>> \o second
IsTuple(c) == Len(c) > 0 /\ c[1] = TupleTag

\* c[1] of the tuple c.
TupleSecond(c) ==
    LET k == CHOOSE i \in 1..Len(c) : c[i] = TupleSep
    IN  SubSeq(c, k + 1, Len(c))

Detectors == << <<"FSC">>, <<"SSC">>, <<"B530">>, <<"B710">> >>

\* The columns of a root table that carries a two-level column index.
TupleColumns ==
    [i \in 1..Len(RawColumns) |-> TupleLabel(Detectors[i], RawColumns[i])]

\* df_raw.columns as handed to _run_gating_tree.
RootColumnChoices == {RawColumns, TupleColumns}

\* The table object df_raw.
DfRaw == "df_raw"

RawValue(r, c) ==
    CASE c = FSC_A -> 2 * r
      [] c = SSC_A -> (3 * r) % 5
      [] c = CD3 -> (r * r + 1) % 7
      [] c = AF488 -> ((r * r) % 5) + 1
      [] OTHER -> 0

PanelChannels == {FSC_A, SSC_A, CD3, AF488, CD19}
Panel == [c \in PanelChannels |-> [ignore |-> FALSE]]

ColumnSet(columns) == {columns[i] : i \in 1..Len(columns)}

(***************************************************************************)
(* Channel Resolver.                                                       *)
(***************************************************************************)
SWUnmix == "(SW-unmix)"

RECURSIVE DropSuffixTokens(_)
DropSuffixTokens(s) ==
    IF s = <<>> THEN <<>>
    ELSE IF Len(s) > 1 /\ s[Len(s)] = SWUnmix
         THEN DropSuffixTokens(SubSeq(s, 1, Len(s) - 1))
         ELSE DropSuffixTokens(SubSeq(s, 1, Len(s) - 1)) \o <<s[Len(s)]>>

\* ch.replace(" (SW-unmix)", "").strip(): every "(SW-unmix)" token that
\* follows a blank disappears together with that blank; a leading one stays.
_normalize_channel(ch) == DropSuffixTokens(ch)

StripShortestFirst(name) ==
    [i \in 1..(IF Len(name) = 0 THEN 0 ELSE Len(name) - 1)
        |-> SubSeq(name, Len(name) - i + 1, Len(name))]

\* [" ".join(parts[i:]) for i in range(1, len(parts))]
_strip_front_progressively(name) ==
    [i \in 1..(IF Len(name) = 0 THEN 0 ELSE Len(name) - 1)
        |-> SubSeq(name, i + 1, Len(name))]

Missing == <<"<missing>">>

RECURSIVE FirstCandidate(_, _, _)
FirstCandidate(cols, cands, i) ==
    IF i > Len(cands) THEN Missing
    ELSE IF cands[i] \in cols THEN cands[i]
    ELSE FirstCandidate(cols, cands, i + 1)

ResolveStrippedFirst(cols, ch) ==
    LET ch2 == _normalize_channel(ch)
        c == FirstCandidate(cols, _strip_front_progressively(ch2), 1)
    IN  IF c # Missing THEN c
        ELSE IF ch \in cols THEN ch
        ELSE IF ch2 \in cols THEN ch2
        ELSE Missing

\* The body of the loop of _validate_channels for one requested channel:
\* the column it resolves to, or Missing when the RuntimeError is raised.
ResolveChannel(cols, ch) ==
    LET ch2 == _normalize_channel(ch)
    IN  IF ch \in cols THEN ch
        ELSE IF ch2 \in cols THEN ch2
        ELSE FirstCandidate(cols, _strip_front_progressively(ch2), 1)

NamedInErrorNormalized(ch) == _normalize_channel(ch)

\* Line 126: the channel named in "Missing FCS channel: {ch}".
NamedInError(ch) == ch

\* The loop of _validate_channels over a table with the column set cols:
\* dims, or the RuntimeError of the first channel that cannot be resolved,
\* with the channel it names and the columns it lists.
ValidateOver(cols, channels) ==
    LET dims == [i \in 1..Len(channels) |-> ResolveChannel(cols, channels[i])]
        bad == {i \in 1..Len(channels) : dims[i] = Missing}
    IN  IF bad # {}
        THEN [ok |-> FALSE, err |-> "MissingChannel", dims |-> <<>>,
              channel |-> NamedInError(channels[CHOOSE i \in bad :
                                                    \A j \in bad : i <= j]),
              listed |-> cols]
        ELSE [ok |-> TRUE, err |-> "none", dims |-> dims,
              channel |-> <<>>, listed |-> {}]

\* _validate_channels(df, channels).
_validate_channels(columns, channels) ==
    ValidateOver(ColumnSet(columns), channels)

(***************************************************************************)
(* Threshold Estimator (core/thresholds.py).                               *)
(***************************************************************************)
bins == 200
CutoffPercentile == 20
FallbackPercentile == 95

MinOf(S) == CHOOSE v \in S : \A w \in S : v <= w
MaxOf(S) == CHOOSE v \in S : \A w \in S : v >= w

ValuesOf(f) == {f[d] : d \in DOMAIN f}

\* The element at 0-based position k of the ascending sort of f's values.
KthSmallest(f, k) ==
    CHOOSE v \in ValuesOf(f) :
        /\ Cardinality({d \in DOMAIN f : f[d] < v}) <= k
        /\ Cardinality({d \in DOMAIN f : f[d] <= v}) > k

\* np.percentile(a, q), linear interpolation between the closest ranks.
Percentile(f, q) ==
    LET n == Cardinality(DOMAIN f)
        pos == q * (n - 1)
        k == pos \div 100
        lower == KthSmallest(f, k)
        upper == IF k + 1 < n THEN KthSmallest(f, k + 1) ELSE lower
    IN  [num |-> 100 * lower + (pos % 100) * (upper - lower), den |-> 100]

\* np.histogram(values, bins=200): the 0-based bin of value v over the range
\* [lo, hi] (widened to [lo - 0.5, hi + 0.5] when lo = hi); the last bin is
\* closed on the right.
BinOf(v, lo, hi) ==
    IF lo = hi THEN bins \div 2
    ELSE IF v = hi THEN bins - 1
    ELSE ((v - lo) * bins) \div (hi - lo)

\* bins[i], the lower edge of bin i.
BinEdge(i, lo, hi) ==
    IF lo = hi THEN [num |-> 2 * bins * lo - bins + 2 * i, den |-> 2 * bins]
    ELSE [num |-> bins * lo + i * (hi - lo), den |-> bins]

\* The variant that takes a bin whose count equals the cutoff as a valley.
ComputeThresholdAtOrBelow(values) ==
    LET lo == MinOf(ValuesOf(values))
        hi == MaxOf(ValuesOf(values))
        hist == [b \in 0..(bins - 1) |->
                    Cardinality({r \in DOMAIN values : BinOf(values[r], lo, hi) = b})]
        cutoff == Percentile(hist, CutoffPercentile)
        idxs == {b \in DOMAIN hist : hist[b] * cutoff.den <= cutoff.num}
    IN  IF idxs = {} THEN Percentile(values, FallbackPercentile)
        ELSE BinEdge(MinOf(idxs), lo, hi)

_compute_threshold(values) ==
    LET lo == MinOf(ValuesOf(values))
        hi == MaxOf(ValuesOf(values))
        hist == [b \in 0..(bins - 1) |->
                    Cardinality({r \in DOMAIN values : BinOf(values[r], lo, hi) = b})]
        cutoff == Percentile(hist, CutoffPercentile)
        idxs == {b \in DOMAIN hist : hist[b] * cutoff.den < cutoff.num}
    IN  IF idxs = {} THEN Percentile(values, FallbackPercentile)
        ELSE BinEdge(MinOf(idxs), lo, hi)

\* marker.startswith("FSC") or marker.startswith("SSC"), over the tokens of
\* the model's alphabet.
ScatterTokens == {"FSC-A", "FSC-H", "FSC-W", "SSC-A", "SSC-H", "SSC-W"}
IsScatter(marker) == Len(marker) > 0 /\ marker[1] \in ScatterTokens

EligibleMarkers(columns, panel) ==
    {m \in ColumnSet(columns) :
        /\ m \in DOMAIN panel
        /\ ~panel[m].ignore
        /\ ~IsScatter(m)}

compute_auto_thresholds(columns, rows, panel) ==
    [m \in EligibleMarkers(columns, panel) |->
        _compute_threshold([r \in rows |-> RawValue(r, m)])]

(***************************************************************************)
(* Marker Rule Applicator.                                                 *)
(***************************************************************************)
AboveOrEqual(v, t) == v * t.den >= t.num

\* Lines 208 and 215: subset[m] > thresholds[m]; <= is its negation.
Above(v, t) == v * t.den > t.num

RECURSIVE KeepPositive(_, _, _)
KeepPositive(subset, markers, thr) ==
    IF markers = <<>> THEN subset
    ELSE LET m == Head(markers)
         IN  IF m \notin DOMAIN thr
             THEN KeepPositive(subset, Tail(markers), thr)
             ELSE KeepPositive({r \in subset : Above(RawValue(r, m), thr[m])},
                               Tail(markers), thr)

RECURSIVE KeepNegativeUntilMissing(_, _, _)
KeepNegativeUntilMissing(subset, markers, thr) ==
    IF markers = <<>> THEN subset
    ELSE LET m == Head(markers)
         IN  IF m \notin DOMAIN thr THEN subset
             ELSE KeepNegativeUntilMissing(
                      {r \in subset : ~Above(RawValue(r, m), thr[m])},
                      Tail(markers), thr)

RECURSIVE KeepNegative(_, _, _)
KeepNegative(subset, markers, thr) ==
    IF markers = <<>> THEN subset
    ELSE LET m == Head(markers)
         IN  IF m \notin DOMAIN thr
             THEN KeepNegative(subset, Tail(markers), thr)
             ELSE KeepNegative({r \in subset : ~Above(RawValue(r, m), thr[m])},
                               Tail(markers), thr)

MarkerRulesOnRoot(df, rules, thr) ==
    KeepNegative(KeepPositive(Rows, rules.positive, thr), rules.negative, thr)

\* Lines 197-217.
_apply_marker_rules(df, rules, thr) ==
    KeepNegative(KeepPositive(df, rules.positive, thr), rules.negative, thr)

\* Lines 205-206 and 212-213: the markers log_warn is called for, in order.
MarkerWarnings(rules, thr) ==
    SelectSeq(rules.positive \o rules.negative, LAMBDA m : m \notin DOMAIN thr)

\* Some rule has a threshold, so subset = subset[...] made a new table; when
\* none has, _apply_marker_rules returns the table it was given.
RulesFilter(rules, thr) ==
    \/ \E i \in 1..Len(rules.positive) : rules.positive[i] \in DOMAIN thr
    \/ \E i \in 1..Len(rules.negative) : rules.negative[i] \in DOMAIN thr

(***************************************************************************)
(* Gate Evaluator.                                                         *)
(***************************************************************************)
XSOfFirstTwo(vertices) == {vertices[1][1], vertices[2][1]}

\* Lines 172-175: v[0] for v in vertices, v[1] for v in vertices.
XS(vertices) == {vertices[i][1] : i \in 1..Len(vertices)}
YS(vertices) == {vertices[i][2] : i \in 1..Len(vertices)}

\* RectangleGate(x_min, x_max, y_min, y_max).gate(df): the rows inside the
\* axis-aligned box, bounds included.
RectangleRows(df, dims, vertices) ==
    {r \in df :
        /\ MinOf(XS(vertices)) <= RawValue(r, dims[1])
        /\ RawValue(r, dims[1]) <= MaxOf(XS(vertices))
        /\ MinOf(YS(vertices)) <= RawValue(r, dims[2])
        /\ RawValue(r, dims[2]) <= MaxOf(YS(vertices))}

Between(a, v, b) == (a <= v /\ v <= b) \/ (b <= v /\ v <= a)

OnEdge(px, py, a, b) ==
    /\ (b[1] - a[1]) * (py - a[2]) = (b[2] - a[2]) * (px - a[1])
    /\ Between(a[1], px, b[1])
    /\ Between(a[2], py, b[2])

\* The edge a-b crosses the horizontal ray that leaves (px, py) to the right.
Crosses(px, py, a, b) ==
    /\ (a[2] > py) # (b[2] > py)
    /\ IF b[2] > a[2]
       THEN (px - a[1]) * (b[2] - a[2]) < (py - a[2]) * (b[1] - a[1])
       ELSE (px - a[1]) * (b[2] - a[2]) > (py - a[2]) * (b[1] - a[1])

InPolygon(px, py, vertices) ==
    LET n == Len(vertices)
        nxt(i) == IF i = n THEN 1 ELSE i + 1
    IN  \/ \E i \in 1..n : OnEdge(px, py, vertices[i], vertices[nxt(i)])
        \/ Cardinality({i \in 1..n :
                Crosses(px, py, vertices[i], vertices[nxt(i)])}) % 2 = 1

\* PolygonGate(dimensions, vertices).apply(df)
PolygonRows(df, dims, vertices) ==
    {r \in df : InPolygon(RawValue(r, dims[1]), RawValue(r, dims[2]), vertices)}

\* The outcome of a call on a table: the rows that pass or the error raised,
\* and the column labels the table given to the call has afterwards.
Raised(e, cols) ==
    [ok |-> FALSE, err |-> e, rows |-> {}, columns |-> cols, text |-> ""]
Returned(rows, cols) ==
    [ok |-> TRUE, err |-> "none", rows |-> rows, columns |-> cols, text |-> ""]

UnknownTypeTextFixed(gtype) == "unsupported"

\* Line 194: the type string in f"Unknown gate type: {gtype}".
UnknownTypeText(gtype) == gtype

\* Line 139: df.columns = [c[1] if isinstance(c, tuple) else c for c in
\* df.columns], assigned on the table the caller passed.
Flattened(columns) ==
    [i \in 1..Len(columns) |->
        IF IsTuple(columns[i]) THEN TupleSecond(columns[i]) ELSE columns[i]]

\* _apply_gate(df, gate_def, gate_name).  The threshold branch calls
\* _validate_channels([ch]) without the table argument, which is a TypeError
\* before any row is tested.
_apply_gate(columns, df, gate_def) ==
    LET cols == Flattened(columns)
    IN  IF gate_def.type = "polygon"
        THEN LET v == _validate_channels(cols, gate_def.channels)
             IN  IF v.ok
                 THEN Returned(PolygonRows(df, v.dims, gate_def.vertices), cols)
                 ELSE Raised(v.err, cols)
        ELSE IF gate_def.type = "rectangle"
        THEN LET v == _validate_channels(cols, gate_def.channels)
             IN  IF v.ok
                 THEN Returned(RectangleRows(df, v.dims, gate_def.vertices), cols)
                 ELSE Raised(v.err, cols)
        ELSE IF gate_def.type = "threshold"
        THEN Raised("TypeError", cols)
        ELSE [Raised("UnknownGateType", cols) EXCEPT
                !.text = UnknownTypeText(gate_def.type)]

(***************************************************************************)
(* Population definitions drawn for a run.                                 *)
(***************************************************************************)
NoVertices == <<>>

GateAbsent ==
    [type |-> "<absent>", channels |-> <<>>, vertices |-> NoVertices]
RectScatter ==
    [type |-> "rectangle", channels |-> <<FSC_A, SSC_A>>,
     vertices |-> << <<2, 1>>, <<4, 1>>, <<4, 3>>, <<2, 3>> >>]
PolyTriangle ==
    [type |-> "polygon", channels |-> <<FSC_A, AF488>>,
     vertices |-> << <<0, 0>>, <<5, 0>>, <<5, 6>> >>]
RectAlias ==
    [type |-> "rectangle",
     channels |-> << <<"E.coli", "Lysosom", "Alexa", "Fluor", "488-A", SWUnmix>>,
                     <<"FSC-A", SWUnmix>> >>,
     vertices |-> << <<4, 3>>, <<6, 7>> >>]
RectMissing ==
    [type |-> "rectangle", channels |-> << <<"PE-A">>, FSC_A >>,
     vertices |-> << <<0, 0>>, <<9, 9>> >>]
EllipseGate ==
    [type |-> "ellipse", channels |-> <<FSC_A, SSC_A>>, vertices |-> NoVertices]
ThresholdGate ==
    [type |-> "threshold", channels |-> <<CD3>>, vertices |-> NoVertices]

Body(has_gate, gate, positive, negative) ==
    [has_gate |-> has_gate, gate |-> gate,
     positive |-> positive, negative |-> negative]

BodyCatalog ==
    << Body(FALSE, GateAbsent, <<>>, <<>>),
       Body(TRUE, RectScatter, <<>>, <<>>),
       Body(FALSE, GateAbsent, <<CD3>>, <<>>),
       Body(TRUE, PolyTriangle, <<>>, <<CD19>>),
       Body(FALSE, GateAbsent, <<>>, <<CD19, CD3>>),
       Body(TRUE, RectAlias, <<>>, <<AF488>>),
       Body(TRUE, RectMissing, <<>>, <<>>),
       Body(TRUE, EllipseGate, <<>>, <<>>),
       Body(TRUE, ThresholdGate, <<>>, <<>>) >>

PopIndex(n) == CHOOSE i \in 1..Len(PopNames) : PopNames[i] = n

\* Experiments over the populations `names` with parent maps `pars`: the
\* bodies are consecutive entries of the catalog, starting anywhere.
ExperimentsOver(names, pars) ==
    {[n \in names |->
        [parent |-> par[n],
         body |-> BodyCatalog[((PopIndex(n) - 1 + shift) % Len(BodyCatalog)) + 1]]] :
     par \in pars, shift \in 0..(Len(BodyCatalog) - 1)}

\* Every parent reference a root or a population (itself included), so
\* forests, self-parents and cycles of every length.
FreeGraphs == [Names -> Names \cup {None}]

\* The cycle A -> B -> C -> A next to NOthers populations whose parent is a
\* root, any population, itself, or an undefined name.
CycleGraphs ==
    {par \in [CycleNames -> CycleNames \cup {None, Ghost}] :
        par["A"] = "B" /\ par["B"] = "C" /\ par["C"] = "A"}

Experiments ==
    ExperimentsOver(Names, FreeGraphs) \cup ExperimentsOver(CycleNames, CycleGraphs)

(***************************************************************************)
(* State of one run of run_gating_pipeline / _run_gating_tree.             *)
(***************************************************************************)
VARIABLES
    celltypes,        \* experiment["celltypes"]
    pc,               \* position in the run
    thresholds,       \* the Threshold Table
    thresholdCalls,   \* calls of compute_auto_thresholds so far
    root_columns,     \* df_raw.columns as passed to _run_gating_tree
    labels,           \* table object -> its column labels now
    gated,            \* name -> [rows, table], the result mapping
    writes,           \* name -> number of assignments gated[name] = ...
    pending,          \* names not yet resolved
    max_iters,
    passes,           \* passes of the outer loop begun so far
    todo,             \* what is left of list(pending) in the current pass
    error,            \* the exception that ended the run, "none" otherwise
    unresolved,       \* the names carried by the unresolved-dependency error
    populations,      \* run_gating_pipeline's local, assigned on return
    exported,         \* names whose table was written as a CSV file
    request,          \* Channel Resolver call: the requested channel
    available,        \* Channel Resolver call: the columns of the table
    resolved,         \* Channel Resolver call: what request resolved to
    lead,             \* Channel Resolver call: the channels listed before request
    outcome,          \* Channel Resolver call: what the call returned or raised
    again,            \* a second call, on the dims the first one returned
    call,             \* a single call of one function: its arguments
    result,           \* a single call of one function: what it gave
    pita,             \* the globals of core/pita.py
    webapp            \* the globals of webapp/app.py and the config file

tree == <<celltypes, pc, thresholds, thresholdCalls, root_columns, labels,
          gated, writes, pending, max_iters, passes, todo, error, unresolved,
          populations, exported>>
chan == <<request, available, resolved, lead, outcome, again>>
unit == <<call, result>>
mods == <<pita, webapp>>
vars == <<tree, chan, unit, mods>>

EmptyMap == [n \in {} |-> {}]

NotCalled == <<"<not called>">>

NoOutcome ==
    [ok |-> FALSE, err |-> "<not called>", dims |-> <<>>,
     channel |-> <<>>, listed |-> {}]

NoCall == [op |-> "none"]
NoResult == [done |-> FALSE]

UnitIdle ==
    /\ call = NoCall
    /\ result = NoResult

\* pita.py lines 5-6 and app.py lines 36-37: the modules as imported.
\* `imports` counts the executions of the import statement of init_logicle,
\* `returned` lists what the calls so far returned.
PitaImported ==
    [_HAS_LOGICLE |-> FALSE, _logicle |-> "None", imports |-> 0,
     returned |-> <<>>]

\* CONFIG_DATA = {} has no "celltypes" key; `file` is the "celltypes"
\* section of the file at CONFIG_PATH.
AppImported ==
    [has_celltypes |-> FALSE, celltypes |-> EmptyMap, CONFIG_PATH |-> "None",
     file_has_celltypes |-> FALSE, file |-> EmptyMap]

ModsIdle ==
    /\ pita = PitaImported
    /\ webapp = AppImported

ChanIdle ==
    /\ request = <<>>
    /\ available = {}
    /\ resolved = NotCalled
    /\ lead = <<>>
    /\ outcome = NoOutcome
    /\ again = NoOutcome

Init ==
    /\ celltypes \in Experiments
    /\ pc = "start"
    /\ thresholds = EmptyMap
    /\ thresholdCalls = 0
    /\ root_columns \in RootColumnChoices
    /\ labels = [t \in {DfRaw} |-> root_columns]
    /\ gated = EmptyMap
    /\ writes = [n \in DOMAIN celltypes |-> 0]
    /\ pending = {}
    /\ max_iters = 0
    /\ passes = 0
    /\ todo = {}
    /\ error = "none"
    /\ unresolved = {}
    /\ populations = EmptyMap
    /\ exported = {}
    /\ ChanIdle
    /\ ModsIdle
    /\ UnitIdle

\* The variant with one pass fewer than populations.
MaxItersTooFew(n) == n - 1

MaxItersOffByOne(n) == n + 5

\* Line 243.
MaxIters(n) == n + 4

\* Lines 232-243: thresholds from the root table, then the empty result and
\* the full pending set.
SetupEnabled == pc = "start"

Setup ==
    /\ SetupEnabled
    /\ thresholds' = compute_auto_thresholds(labels[DfRaw], Rows, Panel)
    /\ thresholdCalls' = thresholdCalls + 1
    /\ gated' = EmptyMap
    /\ pending' = DOMAIN celltypes
    /\ max_iters' = MaxIters(Cardinality(DOMAIN celltypes))
    /\ pc' = "for"
    /\ UNCHANGED <<celltypes, root_columns, labels, writes, passes, todo, error,
                   unresolved, populations, exported, chan, unit, mods>>

\* for _ in range(max_iters): if not pending: break; for ct in list(pending):
BeginPassEnabled == pc = "for" /\ passes < max_iters /\ pending # {}

BeginPass ==
    /\ BeginPassEnabled
    /\ passes' = passes + 1
    /\ todo' = pending
    /\ pc' = "inner"
    /\ UNCHANGED <<celltypes, thresholds, thresholdCalls, root_columns, labels,
                   gated, writes, pending, max_iters, error, unresolved,
                   populations, exported, chan, unit, mods>>

ParentTableRootFallback(ct) ==
    LET parent == celltypes[ct].parent
    IN  IF parent \in DOMAIN gated
        THEN [ready |-> TRUE, rows |-> gated[parent].rows,
              table |-> gated[parent].table]
        ELSE [ready |-> TRUE, rows |-> Rows, table |-> DfRaw]

\* Lines 251-259: df_parent, or not ready (the continue of line 258).
ParentTable(ct) ==
    LET parent == celltypes[ct].parent
    IN  IF parent = None THEN [ready |-> TRUE, rows |-> Rows, table |-> DfRaw]
        ELSE IF parent \notin DOMAIN gated
             THEN [ready |-> FALSE, rows |-> {}, table |-> DfRaw]
             ELSE [ready |-> TRUE, rows |-> gated[parent].rows,
                   table |-> gated[parent].table]

GateStageSwallow(ct) ==
    LET p == ParentTable(ct)
        g == _apply_gate(labels[p.table], p.rows, celltypes[ct].body.gate)
    IN  IF celltypes[ct].body.has_gate /\ g.ok THEN g
        ELSE Returned(p.rows, labels[p.table])

\* Lines 262-266: df_stage after the geometric gate, and the columns of
\* df_parent after these lines.
GateStage(ct) ==
    LET p == ParentTable(ct)
    IN  IF celltypes[ct].body.has_gate
        THEN _apply_gate(labels[p.table], p.rows, celltypes[ct].body.gate)
        ELSE Returned(p.rows, labels[p.table])

RuleThresholdsPerParent(ct) ==
    IF ParentTable(ct).rows = {} THEN thresholds
    ELSE compute_auto_thresholds(RawColumns, ParentTable(ct).rows, Panel)

\* Line 269: the thresholds handed to the marker rules of a population.
RuleThresholds(ct) == thresholds

StoreInPlace(ct, df_stage) ==
    [n \in (DOMAIN gated) \cup {ct} |->
        IF n = ct THEN df_stage
        ELSE IF n = celltypes[ct].parent /\ ~celltypes[ct].body.has_gate
             THEN df_stage
             ELSE gated[n]]

\* Line 271: gated[ct] = df_stage.
Store(ct, df_stage) ==
    [n \in (DOMAIN gated) \cup {ct} |-> IF n = ct THEN df_stage ELSE gated[n]]

\* The variant that leaves the stored name in pending.
PendingKept(ct) == pending

\* Line 272: pending.remove(ct).
PendingAfter(ct) == pending \ {ct}

\* Lines 257-258: the parent is not resolved yet, continue.
SkipNotReadyEnabled(ct) ==
    pc = "inner" /\ ct \in todo /\ ~ParentTable(ct).ready

SkipNotReady(ct) ==
    /\ SkipNotReadyEnabled(ct)
    /\ todo' = todo \ {ct}
    /\ UNCHANGED <<celltypes, pc, thresholds, thresholdCalls, root_columns,
                   labels, gated, writes, pending, max_iters, passes, error,
                   unresolved, populations, exported, chan, unit, mods>>

\* Lines 261-272: gate, marker rules, store, remove from pending.
ResolveEnabled(ct) ==
    pc = "inner" /\ ct \in todo /\ ParentTable(ct).ready /\ GateStage(ct).ok

\* The table object stored for ct: a new one when the gate or a marker rule
\* filtered, otherwise df_parent itself.
StageTable(ct) ==
    IF \/ celltypes[ct].body.has_gate
       \/ RulesFilter(celltypes[ct].body, RuleThresholds(ct))
    THEN ct
    ELSE ParentTable(ct).table

\* The column labels of every table object after lines 261-271: df_parent
\* has those _apply_gate left it with, and a new table copies them.
ColumnsAfter(ct) ==
    [t \in (DOMAIN labels) \cup {StageTable(ct)} |->
        IF t \in {ParentTable(ct).table, StageTable(ct)}
        THEN GateStage(ct).columns
        ELSE labels[t]]

Resolve(ct) ==
    /\ ResolveEnabled(ct)
    /\ gated' = Store(ct, [rows |-> _apply_marker_rules(GateStage(ct).rows,
                                                       celltypes[ct].body,
                                                       RuleThresholds(ct)),
                           table |-> StageTable(ct)])
    /\ labels' = ColumnsAfter(ct)
    /\ writes' = [writes EXCEPT ![ct] = @ + 1]
    /\ pending' = PendingAfter(ct)
    /\ todo' = todo \ {ct}
    /\ UNCHANGED <<celltypes, pc, thresholds, thresholdCalls, root_columns,
                   max_iters, passes, error, unresolved, populations, exported,
                   chan, unit, mods>>

\* Line 264 raises: the exception leaves _run_gating_tree and
\* run_gating_pipeline, neither of which catches it.
GateRaisesEnabled(ct) ==
    pc = "inner" /\ ct \in todo /\ ParentTable(ct).ready /\ ~GateStage(ct).ok

GateRaises(ct) ==
    /\ GateRaisesEnabled(ct)
    /\ error' = GateStage(ct).err
    /\ labels' = [labels EXCEPT ![ParentTable(ct).table] = GateStage(ct).columns]
    /\ pc' = "raised"
    /\ UNCHANGED <<celltypes, thresholds, thresholdCalls, root_columns, gated,
                   writes, pending, max_iters, passes, todo, unresolved,
                   populations, exported, chan, unit, mods>>

\* The inner loop has visited every element of list(pending).
EndPassEnabled == pc = "inner" /\ todo = {}

EndPass ==
    /\ EndPassEnabled
    /\ pc' = "for"
    /\ UNCHANGED <<celltypes, thresholds, thresholdCalls, root_columns, labels,
                   gated, writes, pending, max_iters, passes, todo, error,
                   unresolved, populations, exported, chan, unit, mods>>

LoopOver == pc = "for" /\ (pending = {} \/ passes = max_iters)

\* The variant that reports only the names whose own parent is undefined.
UnresolvedNamesDangling ==
    {n \in pending : celltypes[n].parent \notin DOMAIN celltypes}

UnresolvedNamesAll == DOMAIN celltypes

\* Line 275: the names in the message of the RuntimeError.
UnresolvedNames == pending

\* Lines 274-275.
RaiseUnresolvedEnabled == LoopOver /\ pending # {}

RaiseUnresolved ==
    /\ RaiseUnresolvedEnabled
    /\ error' = "Unresolved"
    /\ unresolved' = UnresolvedNames
    /\ pc' = "raised"
    /\ UNCHANGED <<celltypes, thresholds, thresholdCalls, root_columns, labels,
                   gated, writes, pending, max_iters, passes, todo, populations,
                   exported, chan, unit, mods>>

\* Line 277 and run_gating_pipeline line 597.
ReturnGatedEnabled == LoopOver /\ pending = {}

ReturnGated ==
    /\ ReturnGatedEnabled
    /\ populations' = gated
    /\ pc' = "returned"
    /\ UNCHANGED <<celltypes, thresholds, thresholdCalls, root_columns, labels,
                   gated, writes, pending, max_iters, passes, todo, error,
                   unresolved, exported, chan, unit, mods>>

\* run_gating_pipeline lines 602-605: one CSV file per returned population.
ExportEnabled == pc = "returned"

Export ==
    /\ ExportEnabled
    /\ exported' = DOMAIN populations
    /\ pc' = "exported"
    /\ UNCHANGED <<celltypes, thresholds, thresholdCalls, root_columns, labels,
                   gated, writes, pending, max_iters, passes, todo, error,
                   unresolved, populations, chan, unit, mods>>

Next ==
    \/ Setup
    \/ BeginPass
    \/ \E ct \in DOMAIN celltypes : SkipNotReady(ct)
    \/ \E ct \in DOMAIN celltypes : Resolve(ct)
    \/ \E ct \in DOMAIN celltypes : GateRaises(ct)
    \/ EndPass
    \/ RaiseUnresolved
    \/ ReturnGated
    \/ Export

Spec == Init /\ [][Next]_vars

\* Some action of Next can be taken: the disjunction of the actions' guards
\* (every action is its guard followed by assignments).
CanStep ==
    \/ SetupEnabled
    \/ BeginPassEnabled
    \/ \E ct \in DOMAIN celltypes : SkipNotReadyEnabled(ct)
    \/ \E ct \in DOMAIN celltypes : ResolveEnabled(ct)
    \/ \E ct \in DOMAIN celltypes : GateRaisesEnabled(ct)
    \/ EndPassEnabled
    \/ RaiseUnresolvedEnabled
    \/ ReturnGatedEnabled
    \/ ExportEnabled

(***************************************************************************)
(* One call of the Channel Resolver on a requested name and a column set.  *)
(***************************************************************************)
\* Another parenthetical annotation that acquisition software appends.
Unmixed == "(unmixed)"

Tokens == {"Alexa", "Fluor", "488-A", SWUnmix, Unmixed}

ChannelNames == UNION {[1..n -> Tokens] : n \in 0..MaxTokens}

ColumnPool ==
    { <<"488-A">>, <<"Fluor", "488-A">>, <<"Alexa", "Fluor", "488-A">>,
      <<"Alexa">>, <<"Alexa", SWUnmix>>, <<SWUnmix>> }

TreeIdle ==
    /\ celltypes = EmptyMap
    /\ pc = "idle"
    /\ thresholds = EmptyMap
    /\ thresholdCalls = 0
    /\ root_columns = <<>>
    /\ labels = EmptyMap
    /\ gated = EmptyMap
    /\ writes = EmptyMap
    /\ pending = {}
    /\ max_iters = 0
    /\ passes = 0
    /\ todo = {}
    /\ error = "none"
    /\ unresolved = {}
    /\ populations = EmptyMap
    /\ exported = {}

\* The channels that precede request in the list handed to the call.
LeadChoices == { <<>>, << <<"Alexa", SWUnmix>> >> }

InitChannels ==
    /\ TreeIdle
    /\ request \in ChannelNames
    /\ available \in SUBSET ColumnPool
    /\ resolved = NotCalled
    /\ lead \in LeadChoices
    /\ outcome = NoOutcome
    /\ again = NoOutcome
    /\ UnitIdle
    /\ ModsIdle

\* channels of the call _validate_channels(df, channels).
Requested == lead \o <<request>>

LeadResolves == ValidateOver(available, lead).ok

\* _validate_channels(df, channels) returns dims.
ChannelFound ==
    /\ outcome = NoOutcome
    /\ LeadResolves
    /\ ResolveChannel(available, request) # Missing
    /\ resolved' = ResolveChannel(available, request)
    /\ outcome' = ValidateOver(available, Requested)
    /\ UNCHANGED <<tree, unit, mods, request, available, lead, again>>

\* _validate_channels(df, channels) raises RuntimeError("Missing FCS
\* channel") at request, after the channels before it were resolved.
ChannelMissing ==
    /\ outcome = NoOutcome
    /\ LeadResolves
    /\ ResolveChannel(available, request) = Missing
    /\ resolved' = Missing
    /\ outcome' = ValidateOver(available, Requested)
    /\ UNCHANGED <<tree, unit, mods, request, available, lead, again>>

\* The error is raised at a channel before request; request is not reached.
LeadMissing ==
    /\ outcome = NoOutcome
    /\ ~LeadResolves
    /\ outcome' = ValidateOver(available, Requested)
    /\ UNCHANGED <<tree, unit, mods, request, available, resolved, lead, again>>

\* _validate_channels(df, dims) on the names the first call returned.
ChannelAgain ==
    /\ outcome.ok
    /\ again = NoOutcome
    /\ again' = ValidateOver(available, outcome.dims)
    /\ UNCHANGED <<tree, unit, mods, request, available, resolved, lead, outcome>>

NextChannels == ChannelFound \/ ChannelMissing \/ LeadMissing \/ ChannelAgain

SpecChannels == InitChannels /\ [][NextChannels]_vars

(***************************************************************************)
(* One call of the Gate Evaluator, _apply_gate(df, gate_def, gate_name).   *)
(***************************************************************************)
CornerXs == {2, 4, 6}
CornerYs == {1, 4}
Corners == {<<x, y>> : x \in CornerXs, y \in CornerYs}

\* gate_def["vertices"] of a rectangle: 2 to MaxVertices corners, in any
\* order, repeated or not.
VertexLists == UNION {[1..n -> Corners] : n \in 2..MaxVertices}

PE_A == <<"PE-A">>

\* A gate definition with the keys min and max of a threshold gate; has_min
\* and has_max tell whether the key is present.
GateDef(type, channels, vertices, has_min, min, has_max, max) ==
    [type |-> type, channels |-> channels, vertices |-> vertices,
     has_min |-> has_min, min |-> min, has_max |-> has_max, max |-> max]

RectangleDefs ==
    {GateDef("rectangle", ch, v, FALSE, 0, FALSE, 0) :
        ch \in {<<FSC_A, SSC_A>>, <<PE_A, FSC_A>>}, v \in VertexLists}

PolygonDefs ==
    {GateDef("polygon", ch, PolyTriangle.vertices, FALSE, 0, FALSE, 0) :
        ch \in {<<FSC_A, AF488>>, <<FSC_A, PE_A>>}}

\* gate_def["channel"] is channels[1].
ThresholdDefs ==
    {GateDef("threshold", <<ch>>, NoVertices, has_min, 3, has_max, 4) :
        ch \in {CD3, PE_A}, has_min \in BOOLEAN, has_max \in BOOLEAN}

UnknownTypes == {"ellipse", "Rectangle", "quadrant", ""}

UnknownDefs ==
    {GateDef(t, <<FSC_A, SSC_A>>, NoVertices, FALSE, 0, FALSE, 0) :
        t \in UnknownTypes}

GateDefs == RectangleDefs \cup PolygonDefs \cup ThresholdDefs \cup UnknownDefs

GateCalls ==
    [op : {"_apply_gate"}, gate_def : GateDefs, df : SUBSET Rows,
     columns : RootColumnChoices]

InitGates ==
    /\ TreeIdle
    /\ ChanIdle
    /\ ModsIdle
    /\ call \in GateCalls
    /\ result = NoResult

\* What the call gives: its outcome and the columns the table passed to it
\* has afterwards.
GateResult ==
    LET g == _apply_gate(call.columns, call.df, call.gate_def)
    IN  [done |-> TRUE, ok |-> g.ok, err |-> g.err, rows |-> g.rows,
         columns |-> g.columns, text |-> g.text]

\* _apply_gate returns df[mask].
ApplyGateReturns ==
    /\ call.op = "_apply_gate"
    /\ ~result.done
    /\ GateResult.ok
    /\ result' = GateResult
    /\ UNCHANGED <<tree, chan, call, mods>>

\* _apply_gate raises.
ApplyGateRaises ==
    /\ call.op = "_apply_gate"
    /\ ~result.done
    /\ ~GateResult.ok
    /\ result' = GateResult
    /\ UNCHANGED <<tree, chan, call, mods>>

NextGates == ApplyGateReturns \/ ApplyGateRaises

SpecGates == InitGates /\ [][NextGates]_vars

(***************************************************************************)
(* One call of the Marker Rule Applicator,                                 *)
(* _apply_marker_rules(df, rules, thresholds).                             *)
(***************************************************************************)
RuleMarkers == {CD3, CD19, AF488}

\* rules.get("positive", []) and rules.get("negative", []).
MarkerLists == UNION {[1..n -> RuleMarkers] : n \in 0..MaxRules}

\* Threshold Tables over the columns that can carry a threshold; the value
\* 3 is a CD3 value of the root table.
ThresholdValues == {[num |-> 3, den |-> 1], [num |-> 24, den |-> 5]}
ThresholdTables ==
    UNION {[keys -> ThresholdValues] : keys \in SUBSET {CD3, AF488}}

RuleCalls ==
    [op : {"_apply_marker_rules"}, df : SUBSET Rows,
     rules : [positive : MarkerLists, negative : MarkerLists],
     thresholds : ThresholdTables]

InitRules ==
    /\ TreeIdle
    /\ ChanIdle
    /\ ModsIdle
    /\ call \in RuleCalls
    /\ result = NoResult

\* _apply_marker_rules returns subset; the warnings are those handed to
\* log_warn on the way.
ApplyRules ==
    /\ call.op = "_apply_marker_rules"
    /\ ~result.done
    /\ result' = [done |-> TRUE,
                  rows |-> _apply_marker_rules(call.df, call.rules, call.thresholds),
                  warnings |-> MarkerWarnings(call.rules, call.thresholds)]
    /\ UNCHANGED <<tree, chan, call, mods>>

NextRules == ApplyRules

SpecRules == InitRules /\ [][NextRules]_vars

(***************************************************************************)
(* One call of the Threshold Estimator, compute_auto_thresholds(df,        *)
(* experiment).                                                            *)
(***************************************************************************)
TimeChannel == <<"Time">>

\* The columns a table can have, in acquisition order.
ColumnOrder == <<FSC_A, SSC_A, CD3, AF488, TimeChannel>>

ColumnLists ==
    {SelectSeq(ColumnOrder, LAMBDA c : c \in keep) :
        keep \in SUBSET ColumnSet(ColumnOrder)}

\* experiment["panel"]: any of these channels may have an entry, flagged
\* ignore or not.
PanelPool == {FSC_A, CD3, AF488, TimeChannel, CD19}
Panels ==
    UNION {[keys -> [ignore : BOOLEAN]] : keys \in SUBSET PanelPool}

ThresholdCalls ==
    [op : {"compute_auto_thresholds"}, columns : ColumnLists, panel : Panels]

InitThresholds ==
    /\ TreeIdle
    /\ ChanIdle
    /\ ModsIdle
    /\ call \in ThresholdCalls
    /\ result = NoResult

\* compute_auto_thresholds returns thresholds; keys are its keys.
ComputeThresholds ==
    /\ call.op = "compute_auto_thresholds"
    /\ ~result.done
    /\ result' = [done |-> TRUE,
                  keys |-> DOMAIN compute_auto_thresholds(call.columns, Rows,
                                                          call.panel)]
    /\ UNCHANGED <<tree, chan, call, mods>>

NextThresholds == ComputeThresholds

SpecThresholds == InitThresholds /\ [][NextThresholds]_vars

(***************************************************************************)
(* One call of _compute_threshold(values).  The valley branch needs many   *)
(* occupied bins, so besides short arrays the inputs are arrays that put   *)
(* one value in each of the 200 bins: `low' copies of the values inside a  *)
(* band, `high' copies of the values outside it.                           *)
(***************************************************************************)
MaxSlack == 3

BandStarts == {1, 60, 150}
BandLengths ==
    {0} \cup ((bins \div 5 - MaxSlack)..(bins \div 5 + MaxSlack))
\* <<low, high>>: the copies of a value inside and outside the band.
CopyPairs == {<<0, 1>>, <<0, 2>>, <<1, 2>>}

\* The array, as a function from positions <<value, copy>> to values.
Banded(start, len, low, high) ==
    LET copies(v) == IF start <= v /\ v < start + len THEN low ELSE high
    IN  [p \in {q \in (0..(bins - 1)) \X (1..high) : q[2] <= copies(q[1])}
            |-> p[1]]

BandedArrays ==
    {Banded(start, len, p[1], p[2]) :
        start \in BandStarts, len \in BandLengths, p \in CopyPairs}

ShortValues == {0, 1, 5}
ShortArrays == [Rows -> ShortValues]

EstimatorCalls ==
    [op : {"_compute_threshold"}, values : BandedArrays \cup ShortArrays]

InitEstimator ==
    /\ TreeIdle
    /\ ChanIdle
    /\ ModsIdle
    /\ call \in EstimatorCalls
    /\ result = NoResult

\* _compute_threshold returns a number.
EstimateThreshold ==
    /\ call.op = "_compute_threshold"
    /\ ~result.done
    /\ result' = [done |-> TRUE, threshold |-> _compute_threshold(call.values)]
    /\ UNCHANGED <<tree, chan, call, mods>>

NextEstimator == EstimateThreshold

SpecEstimator == InitEstimator /\ [][NextEstimator]_vars

(***************************************************************************)
(* Configuration loader (core/loader.py).  The parsed YAML document is a   *)
(* record: `celltypes' maps names to definitions, a definition being a     *)
(* mapping (with its parent and the kind of its gate entry) or a scalar;   *)
(* `panel' is a mapping with its entries in document order, or a scalar.   *)
(* The JSON schema is a data file outside the sources, so whether the      *)
(* document violates it is part of the input.  An error message is the     *)
(* sequence of its pieces.                                                 *)
(***************************************************************************)
NConfigNames == 2
MaxChannels == 3

ConfigNames == {PopNames[i] : i \in 1..NConfigNames}

Absent == "<absent>"
Scalar == [kind |-> "scalar"]

ParentChoices == ConfigNames \cup {None, Ghost}
GateKinds == {Absent, "mapping", "null"}
CelltypeDefs ==
    {Scalar} \cup [kind : {"mapping"}, parent : ParentChoices, gate : GateKinds]
CelltypeMaps ==
    UNION {[keys -> CelltypeDefs] : keys \in SUBSET ConfigNames}

FITC == "FITC"
PE == "PE"
Fluors == {None, FITC, PE}
ChannelOrder == <<"B530-A", "YG586-A", "V450-A", "R670-A">>
PanelEntries(keep) ==
    SelectSeq([i \in 1..MaxChannels |-> ChannelOrder[i]], LAMBDA c : c \in keep)

\* Every panel over a subset of the first MaxChannels channels.
FluorPanels ==
    UNION {{[i \in 1..Len(PanelEntries(keep)) |->
                [channel |-> PanelEntries(keep)[i], fluor |-> f[PanelEntries(keep)[i]]]] :
             f \in [keep -> Fluors]} :
           keep \in SUBSET {ChannelOrder[i] : i \in 1..MaxChannels}}

ConfigError == "FACSForgeConfigError"
NoSuchParent == "but no such parent exists in 'celltypes'."
DuplicateFluorochrome == "Duplicate fluorochrome detected:"

Accepted == [ok |-> TRUE, exc |-> "none", text |-> <<>>]
Rejected(exc, text) == [ok |-> FALSE, exc |-> exc, text |-> text]

\* The names in the order the document lists them.
NameOrder(cts) ==
    SelectSeq([i \in 1..Len(PopNames) |-> PopNames[i]],
              LAMBDA n : n \in DOMAIN cts)

\* The variant that returns at the first celltype without a parent.
RECURSIVE ParentsUntilRoot(_, _)
ParentsUntilRoot(cts, names) ==
    IF names = <<>> THEN Accepted
    ELSE LET ct_name == Head(names)
             parent == cts[ct_name].parent
         IN  IF parent = None THEN Accepted
             ELSE IF parent \notin DOMAIN cts
             THEN Rejected(ConfigError,
                           <<"Celltype", ct_name, "specifies parent", parent,
                             NoSuchParent>>)
             ELSE ParentsUntilRoot(cts, Tail(names))

\* Lines 111-120, over the cts still to visit.
RECURSIVE ParentsFrom(_, _)
ParentsFrom(cts, names) ==
    IF names = <<>> THEN Accepted
    ELSE LET ct_name == Head(names)
             parent == cts[ct_name].parent
         IN  IF parent = None THEN ParentsFrom(cts, Tail(names))
             ELSE IF parent \notin DOMAIN cts
             THEN Rejected(ConfigError,
                           <<"Celltype", ct_name, "specifies parent", parent,
                             NoSuchParent>>)
             ELSE ParentsFrom(cts, Tail(names))

_validate_parents(cts) == ParentsFrom(cts, NameOrder(cts))

\* The variant that remembers a label only when it is not None but also
\* forgets it at the next channel.
RECURSIVE FluorsAgainstPrevious(_, _)
FluorsAgainstPrevious(panel, used) ==
    IF panel = <<>> THEN Accepted
    ELSE LET channel == Head(panel).channel
             fluor == Head(panel).fluor
         IN  IF fluor = None THEN FluorsAgainstPrevious(Tail(panel), used)
             ELSE IF fluor \in DOMAIN used
             THEN Rejected(ConfigError,
                           <<DuplicateFluorochrome, fluor, "is used by both",
                             used[fluor], "and", channel>>)
             ELSE FluorsAgainstPrevious(Tail(panel),
                                        [f \in {fluor} |-> channel])

\* Lines 161-170, over the panel entries still to visit.
RECURSIVE FluorsFrom(_, _)
FluorsFrom(panel, used) ==
    IF panel = <<>> THEN Accepted
    ELSE LET channel == Head(panel).channel
             fluor == Head(panel).fluor
         IN  IF fluor = None THEN FluorsFrom(Tail(panel), used)
             ELSE IF fluor \in DOMAIN used
             THEN Rejected(ConfigError,
                           <<DuplicateFluorochrome, fluor, "is used by both",
                             used[fluor], "and", channel>>)
             ELSE FluorsFrom(Tail(panel),
                             [f \in DOMAIN used \cup {fluor} |->
                                 IF f = fluor THEN channel ELSE used[f]])

_validate_fluorochromes(panel) == FluorsFrom(panel, EmptyMap)

\* Lines 202-205: cell.get("gate", {}) and g.get("min") need mappings.
GateScanFails(cts) ==
    \E n \in DOMAIN cts :
        cts[n].kind = "scalar" \/ cts[n].gate = "null"

\* Lines 127-135.
_validate_panel(panel) ==
    IF panel.kind = "scalar"
    THEN Rejected(ConfigError, <<"'panel' must be a mapping">>)
    ELSE Accepted

\* Lines 138-150.
_validate_celltypes(cts) ==
    IF \E n \in DOMAIN cts : cts[n].kind = "scalar"
    THEN Rejected(ConfigError, <<"must have a dictionary as its definition.">>)
    ELSE Accepted

\* load_experiment(config_path), lines 173-216.
load_experiment(file) ==
    IF file.kind = "missing"
    THEN Rejected(ConfigError, <<"Config file not found:">>)
    ELSE IF file.kind = "garbled"
    THEN Rejected(ConfigError, <<"Failed to parse YAML file:">>)
    ELSE IF ~file.has_celltypes
    THEN Rejected("KeyError", <<"celltypes">>)
    ELSE IF GateScanFails(file.celltypes)
    THEN Rejected("AttributeError", <<"object has no attribute 'get'">>)
    ELSE IF file.schema_errors
    THEN Rejected(ConfigError, <<"Configuration does not match schema:">>)
    ELSE IF ~_validate_panel(file.panel).ok
    THEN _validate_panel(file.panel)
    ELSE IF ~_validate_celltypes(file.celltypes).ok
    THEN _validate_celltypes(file.celltypes)
    ELSE IF ~_validate_parents(file.celltypes).ok
    THEN _validate_parents(file.celltypes)
    ELSE _validate_fluorochromes(file.panel.entries)

\* The panels of the documents handed to load_experiment.
LoaderPanels ==
    {Scalar}
    \cup [kind : {"mapping"},
          entries : {<<>>,
                     <<[channel |-> "B530-A", fluor |-> FITC],
                       [channel |-> "V450-A", fluor |-> None]>>,
                     <<[channel |-> "B530-A", fluor |-> FITC],
                       [channel |-> "V450-A", fluor |-> FITC]>>}]

\* The schema requires the panel (tests/test_loader.py,
\* test_missing_panel_fails), so a document whose panel is no mapping is
\* taken to violate the schema as well.
Documents ==
    {d \in [kind : {"document"}, has_celltypes : {TRUE},
            celltypes : CelltypeMaps, panel : LoaderPanels,
            schema_errors : BOOLEAN]
        \cup [kind : {"document"}, has_celltypes : {FALSE},
              celltypes : {EmptyMap}, panel : LoaderPanels,
              schema_errors : BOOLEAN] :
        d.panel.kind = "scalar" => d.schema_errors}

ConfigFiles == {[kind |-> "missing"], [kind |-> "garbled"]} \cup Documents

LoaderCalls ==
    [op : {"load_experiment"}, file : ConfigFiles]
    \cup [op : {"_validate_fluorochromes"}, panel : FluorPanels]

InitLoader ==
    /\ TreeIdle
    /\ ChanIdle
    /\ ModsIdle
    /\ call \in LoaderCalls
    /\ result = NoResult

LoaderResult ==
    IF call.op = "load_experiment" THEN load_experiment(call.file)
    ELSE _validate_fluorochromes(call.panel)

\* The call returns (load_experiment returns the document).
LoaderReturns ==
    /\ call.op \in {"load_experiment", "_validate_fluorochromes"}
    /\ ~result.done
    /\ LoaderResult.ok
    /\ result' = [done |-> TRUE, ok |-> TRUE, exc |-> "none", text |-> <<>>]
    /\ UNCHANGED <<tree, chan, call, mods>>

\* The call raises.
LoaderRaises ==
    /\ call.op \in {"load_experiment", "_validate_fluorochromes"}
    /\ ~result.done
    /\ ~LoaderResult.ok
    /\ result' = [done |-> TRUE, ok |-> FALSE, exc |-> LoaderResult.exc,
                  text |-> LoaderResult.text]
    /\ UNCHANGED <<tree, chan, call, mods>>

NextLoader == LoaderReturns \/ LoaderRaises

SpecLoader == InitLoader /\ [][NextLoader]_vars

(***************************************************************************)
(* FlowJo v9 converter (cli/flowjo9_to_facsforge.py).  The workspace XML   *)
(* is the record of what the extract_* functions read from it: the         *)
(* populations that became celltypes with their `parent' attribute, the    *)
(* population tree (pop_parent, pop_gateid), the gate names and the gate   *)
(* parents.  Dictionaries are visited in document order, which the model   *)
(* takes to be the order of PopOrder and GateOrder.                        *)
(***************************************************************************)
NGates == 2

PopOrder == <<"A", "B", "X">>
Pops == {"A", "B", "X"}
GateOrder == <<"g1", "g2", "g3", "g4">>
Gids == {GateOrder[i] : i \in 1..NGates}

\* extract_celltypes_v9: the populations with a parsable Gate, each with the
\* value of its `parent' attribute.
ExtractedCelltypes ==
    UNION {[keys -> [kind : {"mapping"}, parent : {None, Ghost}, gate : {"mapping"}]] :
             keys \in SUBSET {"A", "B"}}

\* extract_population_tree: the enclosing population of each population.
PopParents ==
    {[p \in Pops |-> None],
     [p \in Pops |-> IF p = "B" THEN "A" ELSE None],
     [p \in Pops |-> IF p = "A" THEN "B" ELSE None],
     [p \in Pops |-> IF p = "A" THEN "X" ELSE IF p = "B" THEN "A" ELSE None],
     [p \in Pops |-> IF p = "A" THEN "A" ELSE None]}

\* extract_population_tree: the gate reference of each population.
PopGateIds ==
    {[p \in Pops |-> IF p = "X" THEN None ELSE f[p]] :
        f \in [{"A", "B"} -> Gids \cup {None}]}

\* extract_gate_names: the name of each gate, Absent when it has no name.
GateNames == [Gids -> {"A", "B", Absent}]

\* extract_gate_parents: the parent_id of each gate.
GateParents == [Gids -> Gids \cup {None}]

Workspaces ==
    [celltypes : ExtractedCelltypes, pop_parent : PopParents,
     pop_gateid : PopGateIds, gate_names : GateNames,
     gate_parents : GateParents]

\* Line 167 and 173: name_to_gid.get(cname); of the gates with one name the
\* reverse map keeps the last.
GidOf(cname, gate_names) ==
    LET named == {i \in 1..NGates : gate_names[GateOrder[i]] = cname}
    IN  IF named = {} THEN None ELSE GateOrder[MaxOf(named)]

\* Line 179-180: the first population whose gate reference is gid.
PopOfGate(gid, pop_gateid) ==
    LET hits == {i \in 1..Len(PopOrder) : pop_gateid[PopOrder[i]] = gid}
    IN  IF hits = {} THEN None ELSE PopOrder[MinOf(hits)]

\* The variant that keeps the population parent without looking it up.
ParentUnchecked(cname, keys, ws) ==
    LET gid == GidOf(cname, ws.gate_names)
        pop_name == PopOfGate(gid, ws.pop_gateid)
    IN  IF gid = None THEN None
        ELSE IF pop_name # None
        THEN ws.pop_parent[pop_name]
        ELSE LET parent_gid == ws.gate_parents[gid]
                 parent_name == IF parent_gid = None THEN Absent
                                ELSE ws.gate_names[parent_gid]
             IN  IF parent_gid # None /\ parent_name \in keys
                 THEN parent_name
                 ELSE None

\* Lines 170-197: the parent assigned to celltype cname.
AssignedParent(cname, keys, ws) ==
    LET gid == GidOf(cname, ws.gate_names)
        pop_name == PopOfGate(gid, ws.pop_gateid)
    IN  IF gid = None THEN None
        ELSE IF pop_name # None
        THEN LET parent_pop == ws.pop_parent[pop_name]
             IN  IF parent_pop \in keys THEN parent_pop ELSE None
        ELSE LET parent_gid == ws.gate_parents[gid]
                 parent_name == IF parent_gid = None THEN Absent
                                ELSE ws.gate_names[parent_gid]
             IN  IF parent_gid # None /\ parent_name \in keys
                 THEN parent_name
                 ELSE None

\* build_yaml_hierarchy(celltypes, root): celltypes after the call.
build_yaml_hierarchy(cts, ws) ==
    [cname \in DOMAIN cts |->
        [cts[cname] EXCEPT !.parent = AssignedParent(cname, DOMAIN cts, ws)]]

ConverterCalls == [op : {"convert_v9"}, root : Workspaces]

InitConverter ==
    /\ TreeIdle
    /\ ChanIdle
    /\ ModsIdle
    /\ call \in ConverterCalls
    /\ result = NoResult

\* convert_v9 returns the configuration; celltypes is its "celltypes".
ConvertV9 ==
    /\ call.op = "convert_v9"
    /\ ~result.done
    /\ result' = [done |-> TRUE,
                  celltypes |-> build_yaml_hierarchy(call.root.celltypes,
                                                     call.root)]
    /\ UNCHANGED <<tree, chan, call, mods>>

NextConverter == ConvertV9

SpecConverter == InitConverter /\ [][NextConverter]_vars

(***************************************************************************)
(* Logicle initialisation (core/pita.py).  `call.flowutils` is what the    *)
(* import of flowutils.logicle_c finds in the environment of the run.      *)
(***************************************************************************)
MaxCalls == 4

\* The import raises, or the module has one of the three functions, or none.
Flowutils ==
    {"ImportError", "logicle", "logicle_transform", "logicle_scale", "unusable"}

Usable(env) == env \in {"logicle", "logicle_transform", "logicle_scale"}

\* init_logicle(), lines 8-34: the globals after the call.
init_logicle(m, env) ==
    IF m._logicle # None THEN m
    ELSE IF Usable(env)
    THEN [m EXCEPT !._logicle = env, !._HAS_LOGICLE = TRUE,
                   !.imports = m.imports + 1]
    ELSE [m EXCEPT !._logicle = None, !._HAS_LOGICLE = FALSE,
                   !.imports = m.imports + 1]

\* get_logicle(), lines 37-44: the globals after the call.
get_logicle(m, env) ==
    IF m._logicle = None THEN init_logicle(m, env) ELSE m

Returning(op, m) ==
    [m EXCEPT !.returned =
        Append(m.returned,
               [op |-> op, has_logicle |-> m._HAS_LOGICLE, function |-> m._logicle])]

InitLogicle ==
    /\ TreeIdle
    /\ ChanIdle
    /\ call \in [op : {"logicle"}, flowutils : Flowutils]
    /\ result = NoResult
    /\ pita = PitaImported
    /\ webapp = AppImported

CallInitLogicle ==
    /\ call.op = "logicle"
    /\ Len(pita.returned) < MaxCalls
    /\ pita' = Returning("init_logicle", init_logicle(pita, call.flowutils))
    /\ UNCHANGED <<tree, chan, unit, webapp>>

CallGetLogicle ==
    /\ call.op = "logicle"
    /\ Len(pita.returned) < MaxCalls
    /\ pita' = Returning("get_logicle", get_logicle(pita, call.flowutils))
    /\ UNCHANGED <<tree, chan, unit, webapp>>

NextLogicle == CallInitLogicle \/ CallGetLogicle

SpecLogicle == InitLogicle /\ [][NextLogicle]_vars

(***************************************************************************)
(* Web editor (webapp/app.py).  `webapp` holds CONFIG_DATA["celltypes"]    *)
(* (and whether the key exists), CONFIG_PATH, and the "celltypes" section  *)
(* of the file at CONFIG_PATH.  A JSON value is a record with its kind: a  *)
(* scalar, a list with its items, a mapping with its entries, or absent    *)
(* (the key is missing).  `call` is the request being answered and         *)
(* `result` the response.                                                  *)
(***************************************************************************)
GateOrderWeb == <<"Singlets", "Tcells">>
GateKeys == {"Singlets", "Tcells"}

Missing_ == [kind |-> "absent"]
ListOf(items) == [kind |-> "list", items |-> items]

GateInfos ==
    {Scalar}
    \cup [kind : {"mapping"},
          gate : {Missing_, [kind |-> "mapping"]},
          positive : {Missing_, ListOf(<<"CD3">>), Scalar},
          negative : {Missing_, Scalar}]

Payloads ==
    {Scalar}
    \cup [kind : {"mapping"},
          entries : UNION {[keys -> GateInfos] : keys \in SUBSET GateKeys}]

\* Lines 169-171: info.setdefault for parent, positive and negative.
WithDefaults(info) ==
    [kind |-> "mapping", gate |-> info.gate, parent |-> None,
     positive |-> IF info.positive = Missing_ THEN ListOf(<<>>) ELSE info.positive,
     negative |-> IF info.negative = Missing_ THEN ListOf(<<>>) ELSE info.negative]

\* Lines 163-177: the error of one entry, "none" when it passes.
EntryError(info) ==
    IF info.kind # "mapping" THEN "must be a dict"
    ELSE IF info.gate = Missing_ THEN "is missing its 'gate' geometry"
    ELSE IF WithDefaults(info).positive.kind # "list"
    THEN "'positive' must be a list"
    ELSE IF WithDefaults(info).negative.kind # "list"
    THEN "'negative' must be a list"
    ELSE "none"

\* Lines 158-177: the error of the payload, "none" when it passes; entries
\* are visited in order and the first error is returned.
PayloadError(payload) ==
    IF payload.kind # "mapping" THEN "Gate data must be a dictionary"
    ELSE LET bad == {i \in 1..Len(GateOrderWeb) :
                        /\ GateOrderWeb[i] \in DOMAIN payload.entries
                        /\ EntryError(payload.entries[GateOrderWeb[i]]) # "none"}
         IN  IF bad = {} THEN "none"
             ELSE EntryError(payload.entries[GateOrderWeb[MinOf(bad)]])

\* save_config(), lines 64-72.
save_config(w) ==
    IF w.CONFIG_PATH = None THEN w
    ELSE [w EXCEPT !.file_has_celltypes = w.has_celltypes,
                   !.file = w.celltypes]

\* The variant that assigns CONFIG_DATA["celltypes"] before validating.
StoredBeforeValidation(w, payload) ==
    IF payload.kind # "mapping" THEN w
    ELSE IF PayloadError(payload) # "none"
    THEN [w EXCEPT !.has_celltypes = TRUE, !.celltypes = payload.entries]
    ELSE save_config(
            [w EXCEPT !.has_celltypes = TRUE,
                      !.celltypes = [n \in DOMAIN payload.entries |->
                                        WithDefaults(payload.entries[n])]])

\* Lines 156-182: the globals and the file after a POST to /api/gates.
StoredAfterPost(w, payload) ==
    IF PayloadError(payload) # "none" THEN w
    ELSE save_config(
            [w EXCEPT !.has_celltypes = TRUE,
                      !.celltypes = [n \in DOMAIN payload.entries |->
                                        WithDefaults(payload.entries[n])]])

\* The "celltypes" section of the config file before the server starts.
StoredGates ==
    [n \in {"Singlets"} |->
        WithDefaults([kind |-> "mapping", gate |-> [kind |-> "mapping"],
                      positive |-> Missing_, negative |-> Missing_])]

InitWeb ==
    /\ TreeIdle
    /\ ChanIdle
    /\ UnitIdle
    /\ pita = PitaImported
    /\ webapp \in {AppImported,
                    [AppImported EXCEPT !.file_has_celltypes = TRUE,
                                        !.file = StoredGates]}

\* load_config(path), lines 44-61, for a file that exists; setdefault
\* gives CONFIG_DATA an empty "celltypes" when the file has none.
LoadConfig ==
    /\ webapp.CONFIG_PATH = None
    /\ webapp' = [webapp EXCEPT !.CONFIG_PATH = "config.yaml",
                                !.has_celltypes = TRUE,
                                !.celltypes = webapp.file]
    /\ call' = [op |-> "load_config"]
    /\ result' = [done |-> TRUE, status |-> 0, error |-> "none"]
    /\ UNCHANGED <<tree, chan, pita>>

\* GET /api/gates, lines 152-153.
GetGates ==
    /\ call' = [op |-> "GET /api/gates"]
    /\ result' = [done |-> TRUE, status |-> 200, error |-> "none",
                  body |-> webapp.celltypes]
    /\ UNCHANGED <<tree, chan, pita, webapp>>

\* POST /api/gates answered with 400, lines 158-177.
PostGatesRejected(payload) ==
    /\ PayloadError(payload) # "none"
    /\ call' = [op |-> "POST /api/gates", payload |-> payload]
    /\ result' = [done |-> TRUE, status |-> 400,
                  error |-> PayloadError(payload)]
    /\ webapp' = StoredAfterPost(webapp, payload)
    /\ UNCHANGED <<tree, chan, pita>>

\* POST /api/gates answered with "gates saved", lines 180-184.
PostGatesSaved(payload) ==
    /\ PayloadError(payload) = "none"
    /\ call' = [op |-> "POST /api/gates", payload |-> payload]
    /\ result' = [done |-> TRUE, status |-> 200, error |-> "none"]
    /\ webapp' = StoredAfterPost(webapp, payload)
    /\ UNCHANGED <<tree, chan, pita>>

\* POST /api/save, lines 187-191.
ApiSave ==
    /\ call' = [op |-> "POST /api/save"]
    /\ result' = [done |-> TRUE, status |-> 200, error |-> "none"]
    /\ webapp' = save_config(webapp)
    /\ UNCHANGED <<tree, chan, pita>>

NextWeb ==
    \/ LoadConfig
    \/ GetGates
    \/ \E payload \in Payloads : PostGatesRejected(payload)
    \/ \E payload \in Payloads : PostGatesSaved(payload)
    \/ ApiSave

SpecWeb == InitWeb /\ [][NextWeb]_vars

(***************************************************************************)
(* Properties of the Population Graph Resolver.                            *)
(***************************************************************************)
ParentOf(n) == celltypes[n].parent

\* C1: a population with a non-null parent is in the result mapping only if
\* its parent is, and whenever a step stores a population its parent was
\* stored before that step (or its parent is None): no population is
\* resolved before its parent.
C1_ParentResolvedFirst ==
    /\ [](\A n \in DOMAIN gated : ParentOf(n) = None \/ ParentOf(n) \in DOMAIN gated)
    /\ [][\A n \in (DOMAIN gated') \ (DOMAIN gated) :
            ParentOf(n) = None \/ ParentOf(n) \in DOMAIN gated]_vars

\* A child has been stored after its parent.
C1_Witness ==
    \E n \in DOMAIN gated : ParentOf(n) \in DOMAIN gated /\ ParentOf(n) # n

Ended == pc \in {"raised", "exported"}

\* The Threshold Table of the root event table, for either kind of labels.
NameThresholds == compute_auto_thresholds(RawColumns, Rows, Panel)
TupleThresholds == compute_auto_thresholds(TupleColumns, Rows, Panel)
RootThresholds ==
    IF root_columns = RawColumns THEN NameThresholds ELSE TupleThresholds
NPopulations == Cardinality(DOMAIN celltypes)

RECURSIVE ReachesRootIn(_, _)
ReachesRootIn(n, k) ==
    IF ParentOf(n) = None THEN TRUE
    ELSE IF k = 0 \/ ParentOf(n) \notin DOMAIN celltypes THEN FALSE
    ELSE ReachesRootIn(ParentOf(n), k - 1)

\* The parent chain of n ends in a population whose parent is None.
ReachesRoot(n) == ReachesRootIn(n, NPopulations)

CycleABC == {"A", "B", "C"}

HasCycleABC ==
    /\ CycleABC \subseteq DOMAIN celltypes
    /\ ParentOf("A") = "B"
    /\ ParentOf("B") = "C"
    /\ ParentOf("C") = "A"

OthersReachRoot == \A n \in (DOMAIN celltypes) \ CycleABC : ReachesRoot(n)

\* C2 as claimed (read on the runs that evaluate no threshold gate): with the
\* cycle A -> B -> C -> A and every other population reaching a root, the run
\* never returns and, once ended, has raised the unresolved-dependency error
\* carrying exactly {A, B, C}.
C2_AsClaimed ==
    (HasCycleABC /\ OthersReachRoot /\ error # "TypeError") =>
        /\ pc \notin {"returned", "exported"}
        /\ pc = "raised" => (error = "Unresolved" /\ unresolved = CycleABC)

\* C2 as amended: with the cycle A -> B -> C -> A the run never returns a
\* mapping, makes at most (count + 4) passes, can always take a step until it
\* has raised, and ends by raising an error; that error is the
\* unresolved-dependency error unless the gate of a population outside the
\* cycle raised, and when it is the unresolved-dependency error and every other
\* population reaches a root it carries exactly {A, B, C}.
C2_CycleEndsInError ==
    HasCycleABC =>
        /\ pc \notin {"returned", "exported"}
        /\ passes <= NPopulations + 4
        /\ pc = "raised" \/ CanStep
        /\ pc = "raised" =>
            \/ error = "Unresolved" /\ CycleABC \subseteq unresolved
            \/ /\ error \in {"MissingChannel", "UnknownGateType", "TypeError"}
               /\ \E n \in pending \ CycleABC :
                    celltypes[n].body.has_gate /\ ParentTable(n).ready
        /\ (pc = "raised" /\ error = "Unresolved" /\ OthersReachRoot) =>
                unresolved = CycleABC

\* The cycle next to a resolved population: the error carries the cycle only.
C2_Witness ==
    /\ HasCycleABC
    /\ OthersReachRoot
    /\ pc = "raised"
    /\ error = "Unresolved"
    /\ unresolved = CycleABC
    /\ DOMAIN gated # {}

\* C3 as claimed (read on the runs that evaluate no threshold gate): a run
\* that has ended made at most (count + 4) passes and ended with an empty
\* pending set or with the unresolved-dependency error.
C3_AsClaimed ==
    (pc \in {"raised", "returned", "exported"} /\ error # "TypeError") =>
        /\ passes <= NPopulations + 4
        /\ pending = {} \/ error = "Unresolved"

\* C3 as amended: the loop makes at most (count + 4) passes over the pending
\* set, the run can always take a step until it has ended, and it ends with
\* an empty pending set, with the unresolved-dependency error, or with the
\* error raised while evaluating a population's gate.
C3_BoundedPasses ==
    /\ passes <= NPopulations + 4
    /\ Ended \/ CanStep
    /\ pc \in {"returned", "exported"} => (pending = {} /\ error = "none")
    /\ pc = "raised" =>
        \/ error = "Unresolved" /\ pending # {} /\ unresolved = pending
        \/ /\ error \in {"MissingChannel", "UnknownGateType", "TypeError"}
           /\ \E n \in pending : celltypes[n].body.has_gate /\ ParentTable(n).ready

\* An unresolvable graph uses every one of the (count + 4) passes.
C3_Witness ==
    /\ pc = "raised"
    /\ error = "Unresolved"
    /\ passes = NPopulations + 4
    /\ \E n \in pending : ParentOf(n) = Ghost

\* C4: the rows of every stored population are rows of its parent's table
\* (of the root table when the parent is None), in the mapping under
\* construction and in the mapping returned.
C4_RowsSubsetOfParent ==
    /\ \A n \in DOMAIN gated :
        IF ParentOf(n) = None THEN gated[n].rows \subseteq Rows
        ELSE /\ ParentOf(n) \in DOMAIN gated
             /\ gated[n].rows \subseteq gated[ParentOf(n)].rows
    /\ \A n \in DOMAIN populations :
        IF ParentOf(n) = None THEN populations[n].rows \subseteq Rows
        ELSE /\ ParentOf(n) \in DOMAIN populations
             /\ populations[n].rows \subseteq populations[ParentOf(n)].rows

\* A gated child that kept some but not all rows of a gated, filtered parent.
C4_Witness ==
    \E n \in DOMAIN populations :
        /\ ParentOf(n) \in DOMAIN populations
        /\ celltypes[n].body.has_gate
        /\ populations[n].rows # {}
        /\ populations[n].rows # populations[ParentOf(n)].rows
        /\ populations[ParentOf(n)].rows # Rows

\* C5: every name is assigned its table at most once, and exactly once when
\* it is in the mapping; an entry, once written, is the same table with the
\* same rows and the same column labels after every later step, and its name
\* stays out of the pending set.
C5_WrittenOnce ==
    /\ [][\A n \in DOMAIN gated :
            /\ n \in DOMAIN gated'
            /\ gated'[n] = gated[n]
            /\ labels'[gated'[n].table] = labels[gated[n].table]
            /\ n \notin pending']_vars
    /\ [](\A n \in DOMAIN celltypes :
            /\ writes[n] <= 1
            /\ n \in DOMAIN gated <=> writes[n] = 1
            /\ n \in DOMAIN gated => n \notin pending)

\* C6: after the unresolved-dependency error the caller holds the tables of
\* the populations resolved before the failure.
C6_PartialResultsAvailable ==
    (pc = "raised" /\ error = "Unresolved") =>
        \A n \in DOMAIN gated : n \in DOMAIN populations /\ populations[n] = gated[n]

\* The gate of population n raises on this table's columns.
GateFails(n) ==
    /\ celltypes[n].body.has_gate
    /\ ~_apply_gate(root_columns, {}, celltypes[n].body.gate).ok

\* C7: a population whose gate raises is never stored, and once the
\* channel-not-found or unknown-gate-type error is raised the run has ended:
\* no step follows, no mapping reached the caller, nothing was exported.
C7_GateErrorAborts ==
    /\ \A n \in DOMAIN gated : ~GateFails(n)
    /\ error \in {"MissingChannel", "UnknownGateType"} =>
        /\ pc = "raised"
        /\ ~CanStep
        /\ populations = EmptyMap
        /\ exported = {}
        /\ \E n \in pending : GateFails(n) /\ ParentTable(n).ready

\* The run aborted on a gate error while a population was already stored and
\* another one, whose gate works, was ready to be resolved.
C7_Witness ==
    /\ error \in {"MissingChannel", "UnknownGateType"}
    /\ DOMAIN gated # {}
    /\ \E n \in pending : ~GateFails(n) /\ ParentTable(n).ready

\* The table of n obtained by following its parent chain from the root
\* table, whatever the order of resolution (k bounds the chain).
RECURSIVE Canon(_, _)
Canon(n, k) ==
    LET up == IF ParentOf(n) = None THEN Rows
              ELSE IF k = 0 \/ ParentOf(n) \notin DOMAIN celltypes THEN {}
              ELSE Canon(ParentOf(n), k - 1)
        staged == IF celltypes[n].body.has_gate
                  THEN _apply_gate(root_columns, up, celltypes[n].body.gate).rows
                  ELSE up
    IN  _apply_marker_rules(staged, celltypes[n].body, RootThresholds)

\* C8: in whatever order the ready populations are processed, each stored
\* table is the one its parent chain determines, so the mapping returned is
\* the same for every processing order.
C8_OrderIndependent ==
    /\ \A n \in DOMAIN gated : gated[n].rows = Canon(n, NPopulations)
    /\ pc \in {"returned", "exported"} =>
        /\ DOMAIN populations = DOMAIN celltypes
        /\ \A n \in DOMAIN populations : populations[n].rows = Canon(n, NPopulations)

\* A run that resolved a parent and its filtered child within a single pass,
\* which only some processing orders do.
C8_Witness ==
    /\ pc = "exported"
    /\ passes = 1
    /\ \E n \in DOMAIN populations :
        /\ ParentOf(n) # None
        /\ populations[n].rows # populations[ParentOf(n)].rows

\* C9: the Threshold Table is computed once, from the root table, before any
\* population is stored; afterwards it stays that table, and every stored
\* population is what its marker rules give with that table.
C9_ThresholdsOnceFromRoot ==
    /\ thresholdCalls <= 1
    /\ pc = "start" => (thresholdCalls = 0 /\ DOMAIN gated = {})
    /\ pc # "start" =>
        /\ thresholdCalls = 1
        /\ thresholds = RootThresholds
    /\ \A n \in DOMAIN gated :
        /\ ParentTable(n).ready
        /\ gated[n].rows =
            _apply_marker_rules(
                IF celltypes[n].body.has_gate
                THEN _apply_gate(labels[ParentTable(n).table],
                                 ParentTable(n).rows,
                                 celltypes[n].body.gate).rows
                ELSE ParentTable(n).rows,
                celltypes[n].body, thresholds)

\* A population with an effective marker rule stored below a parent that
\* holds only part of the root table.
C9_Witness ==
    \E n \in DOMAIN gated :
        /\ ParentOf(n) \in DOMAIN gated
        /\ gated[ParentOf(n)].rows # Rows
        /\ \E i \in 1..Len(celltypes[n].body.positive) :
                celltypes[n].body.positive[i] \in DOMAIN thresholds
        /\ gated[n].rows # gated[ParentOf(n)].rows

(***************************************************************************)
(* Properties of the Channel Resolver.                                     *)
(***************************************************************************)
\* The name itself, the suffix-stripped name, then the suffix-stripped name
\* with 1, 2, ... leftmost tokens removed.
CandidateOrder(ch) ==
    LET ch2 == _normalize_channel(ch)
    IN  <<ch, ch2>> \o [k \in 1..(IF Len(ch2) = 0 THEN 0 ELSE Len(ch2) - 1) |->
                            SubSeq(ch2, k + 1, Len(ch2))]

\* C10: the column returned is the first candidate, in the order (1) the name,
\* (2) the suffix-stripped name, (3) that name with 1, 2, ... leftmost tokens
\* removed, that is a column; the call fails when no candidate is a column.
C10_FirstCandidateWins ==
    resolved # NotCalled =>
        LET cands == CandidateOrder(request)
            hits == {i \in 1..Len(cands) : cands[i] \in available}
        IN  IF hits = {} THEN resolved = Missing
            ELSE resolved = cands[MinOf(hits)]

\* Two stripped forms are columns and the longer one, tried first, is returned.
C10_Witness ==
    /\ resolved # NotCalled
    /\ resolved # request
    /\ resolved # _normalize_channel(request)
    /\ Len(resolved) >= 2
    /\ SubSeq(resolved, 2, Len(resolved)) \in available

\* A parenthetical suffix token.
Parenthetical == {SWUnmix, Unmixed}

\* C11: a requested name that is a column name followed by one parenthetical
\* suffix, and is not itself a column, resolves to that column.
C11_SuffixStripped ==
    resolved # NotCalled =>
        \A c \in available : \A suffix \in Parenthetical :
            (request = c \o <<suffix>> /\ request \notin available) => resolved = c

\* C12: a requested name that is a column resolves to itself; every name a
\* call returns is a column; and a call on the names a call returned
\* returns the same names.
C12_Idempotent ==
    /\ (resolved # NotCalled /\ request \in available) => resolved = request
    /\ outcome.ok =>
        \A i \in 1..Len(outcome.dims) : outcome.dims[i] \in available
    /\ again # NoOutcome => (again.ok /\ again.dims = outcome.dims)

\* A name resolved by left-token stripping, while a shorter stripped form is
\* a column too, was resolved again.
C12_Witness ==
    /\ again # NoOutcome
    /\ resolved \notin {request, _normalize_channel(request), Missing}
    /\ Len(resolved) >= 2
    /\ SubSeq(resolved, 2, Len(resolved)) \in available
    /\ again.dims[Len(again.dims)] = resolved

\* No resolution rule finds a column for ch.
NoRuleMatches(ch) ==
    \A k \in 1..Len(CandidateOrder(ch)) : CandidateOrder(ch)[k] \notin available

\* C13: when no rule finds a column for some requested channel, the call
\* raises the channel-not-found error, which names the first such channel as
\* it was requested and lists every column of the table, and no dimension is
\* returned; otherwise the call returns.
C13_MissingChannelError ==
    outcome # NoOutcome =>
        LET unres == {i \in 1..Len(Requested) : NoRuleMatches(Requested[i])}
        IN  IF unres = {} THEN outcome.ok
            ELSE /\ ~outcome.ok
                 /\ outcome.err = "MissingChannel"
                 /\ outcome.channel = Requested[MinOf(unres)]
                 /\ outcome.listed = available
                 /\ outcome.dims = <<>>

\* The first channel of the list was resolved, the second one, whose
\* suffix-stripped form differs from it, was not, and the table has columns.
C13_Witness ==
    /\ lead # <<>>
    /\ resolved = Missing
    /\ ~outcome.ok
    /\ outcome.channel = request
    /\ request # _normalize_channel(request)
    /\ outcome.dims = <<>>
    /\ Cardinality(outcome.listed) >= 2

(***************************************************************************)
(* Properties of the Gate Evaluator.                                       *)
(***************************************************************************)
GateCalled == call.op = "_apply_gate" /\ result.done

\* C14: a threshold gate on a channel of the table returns exactly the rows
\* whose value lies in [min, max], an absent bound being unbounded.
C14_ThresholdRange ==
    (/\ GateCalled
     /\ call.gate_def.type = "threshold"
     /\ call.gate_def.channels[1] \in ColumnSet(call.columns)) =>
        /\ result.ok
        /\ result.rows =
            {r \in call.df :
                LET v == RawValue(r, call.gate_def.channels[1])
                IN  /\ call.gate_def.has_min => call.gate_def.min <= v
                    /\ call.gate_def.has_max => v <= call.gate_def.max}

\* The rows _apply_gate gives for the call's table and gate with the vertex
\* list replaced by w.
RowsWithVertices(w) ==
    _apply_gate(call.columns, call.df, [call.gate_def EXCEPT !.vertices = w]).rows

Reversed(w) == [i \in 1..Len(w) |-> w[Len(w) + 1 - i]]

\* C15: a rectangle gate returns the rows inside the box spanned by the
\* least and greatest x and y of its vertices, bounds included; the two
\* pairs of opposite corners of that box, its four corners, and the vertex
\* list reversed or repeated all return the same rows.
C15_RectangleVertexOrder ==
    (GateCalled /\ call.gate_def.type = "rectangle" /\ result.ok) =>
        LET v == call.gate_def.vertices
            xs == {v[i][1] : i \in 1..Len(v)}
            ys == {v[i][2] : i \in 1..Len(v)}
            x_min == CHOOSE x \in xs : \A o \in xs : x <= o
            x_max == CHOOSE x \in xs : \A o \in xs : x >= o
            y_min == CHOOSE y \in ys : \A o \in ys : y <= o
            y_max == CHOOSE y \in ys : \A o \in ys : y >= o
            dims == _validate_channels(result.columns, call.gate_def.channels).dims
        IN  /\ result.rows =
                {r \in call.df :
                    /\ x_min <= RawValue(r, dims[1])
                    /\ RawValue(r, dims[1]) <= x_max
                    /\ y_min <= RawValue(r, dims[2])
                    /\ RawValue(r, dims[2]) <= y_max}
            /\ \A w \in { << <<x_min, y_min>>, <<x_max, y_max>> >>,
                           << <<x_max, y_min>>, <<x_min, y_max>> >>,
                           << <<x_min, y_min>>, <<x_max, y_min>>,
                              <<x_max, y_max>>, <<x_min, y_max>> >>,
                           Reversed(v), v \o v } :
                    RowsWithVertices(w) = result.rows

\* Three vertices of which the last alone carries the greatest x; the gate
\* kept a row at that x and dropped another row.
C15_Witness ==
    /\ GateCalled
    /\ call.gate_def.type = "rectangle"
    /\ result.ok
    /\ Len(call.gate_def.vertices) = 3
    /\ call.gate_def.vertices[3][1] > call.gate_def.vertices[1][1]
    /\ call.gate_def.vertices[3][1] > call.gate_def.vertices[2][1]
    /\ \E r \in result.rows : RawValue(r, FSC_A) = call.gate_def.vertices[3][1]
    /\ result.rows # call.df

\* C16: a gate whose type is none of polygon, rectangle, threshold makes the
\* call raise the unknown-gate-type error, whose text carries that type
\* string, and no rows are returned.
C16_UnknownTypeNamed ==
    (GateCalled /\ call.gate_def.type \notin {"polygon", "rectangle", "threshold"}) =>
        /\ ~result.ok
        /\ result.err = "UnknownGateType"
        /\ result.text = call.gate_def.type
        /\ result.rows = {}

\* A rectangle gate spelled with a capital letter was refused on a table
\* that holds rows.
C16_Witness ==
    /\ GateCalled
    /\ call.gate_def.type = "Rectangle"
    /\ call.df # {}
    /\ result.err = "UnknownGateType"
    /\ result.text = "Rectangle"

\* C17: after a call of _apply_gate, returned or raised, the table it was
\* given has the column labels it had before the call.
C17_ParentTableUntouched ==
    GateCalled => result.columns = call.columns

(***************************************************************************)
(* Properties of the Marker Rule Applicator.                               *)
(***************************************************************************)
RulesCalled == call.op = "_apply_marker_rules" /\ result.done

\* Row r has a value strictly greater than the threshold of marker m.
Exceeds(r, m) ==
    RawValue(r, m) * call.thresholds[m].den > call.thresholds[m].num

\* C18: the rows kept are exactly the rows of the table given whose value is
\* strictly greater than the threshold for every positive marker that has
\* one, and less than or equal to the threshold for every negative marker
\* that has one; with positive = [m] alone they are the rows with
\* value(m) > t.
C18_MarkerRuleRows ==
    RulesCalled =>
        LET pos == call.rules.positive
            neg == call.rules.negative
            thr == call.thresholds
        IN  result.rows =
                {r \in call.df :
                    /\ \A i \in 1..Len(pos) : pos[i] \in DOMAIN thr => Exceeds(r, pos[i])
                    /\ \A i \in 1..Len(neg) : neg[i] \in DOMAIN thr => ~Exceeds(r, neg[i])}

\* positive = [CD3] alone, and the table holds a row whose CD3 value equals
\* the threshold: that row is dropped, a row above the threshold is kept.
C18_Witness ==
    /\ RulesCalled
    /\ call.rules.positive = <<CD3>>
    /\ call.rules.negative = <<>>
    /\ CD3 \in DOMAIN call.thresholds
    /\ \E r \in call.df \ result.rows :
            RawValue(r, CD3) * call.thresholds[CD3].den = call.thresholds[CD3].num
    /\ result.rows # {}

\* The markers of a list that have a threshold, in order.
WithThreshold(markers) ==
    SelectSeq(markers, LAMBDA m : m \in DOMAIN call.thresholds)

\* C19: a rule whose marker has no entry in the Threshold Table is skipped:
\* the call returns (it does not fail), one warning is recorded for each
\* such rule, positive ones first, and the rows returned are those the
\* remaining rules alone give.
C19_MissingThresholdSkipped ==
    RulesCalled =>
        /\ result.rows =
                _apply_marker_rules(call.df,
                    [positive |-> WithThreshold(call.rules.positive),
                     negative |-> WithThreshold(call.rules.negative)],
                    call.thresholds)
        /\ Len(result.warnings) =
                Cardinality({i \in 1..Len(call.rules.positive) :
                                call.rules.positive[i] \notin DOMAIN call.thresholds})
                + Cardinality({i \in 1..Len(call.rules.negative) :
                                call.rules.negative[i] \notin DOMAIN call.thresholds})
        /\ \A i \in 1..Len(result.warnings) :
                result.warnings[i] \notin DOMAIN call.thresholds
        /\ (WithThreshold(call.rules.positive) = <<>>
             /\ WithThreshold(call.rules.negative) = <<>>) => result.rows = call.df

\* negative = [CD19, CD3] with a threshold for CD3 only: one warning, for
\* CD19, and the CD3 rule after it still dropped a row.
C19_Witness ==
    /\ RulesCalled
    /\ call.rules.negative = <<CD19, CD3>>
    /\ call.rules.positive = <<>>
    /\ CD3 \in DOMAIN call.thresholds
    /\ result.warnings = <<CD19>>
    /\ result.rows # call.df
    /\ result.rows # {}

(***************************************************************************)
(* Properties of the Threshold Estimator.                                  *)
(***************************************************************************)
ThresholdsCalled == call.op = "compute_auto_thresholds" /\ result.done

\* The first token of the name begins with a light-scatter or time prefix.
ScatterOrTime(m) ==
    Len(m) > 0 /\ m[1] \in {"FSC-A", "FSC-H", "FSC-W", "SSC-A", "SSC-H", "SSC-W", "Time"}

\* C20: every key of the Threshold Table is a column of the table that has a
\* panel entry, is not flagged ignore, and is neither a scatter nor a time
\* channel.
C20_EligibleKeysOnly ==
    ThresholdsCalled =>
        \A m \in result.keys :
            /\ m \in ColumnSet(call.columns)
            /\ m \in DOMAIN call.panel
            /\ ~call.panel[m].ignore
            /\ ~ScatterOrTime(m)

EstimatorCalled == call.op = "_compute_threshold" /\ result.done

\* The counts of bins first .. last of the histogram over [lo, hi], as a
\* sequence.
RECURSIVE CountsBetween(_, _, _, _, _)
CountsBetween(values, lo, hi, first, last) ==
    IF first = last
    THEN <<Cardinality({p \in DOMAIN values :
                            BinOf(values[p], lo, hi) = first})>>
    ELSE LET mid == (first + last) \div 2
         IN  CountsBetween(values, lo, hi, first, mid)
                \o CountsBetween(values, lo, hi, mid + 1, last)

\* The bin counts; bin b is element b + 1.
BinCounts(values) ==
    CountsBetween(values, MinOf(ValuesOf(values)), MaxOf(ValuesOf(values)),
                  0, bins - 1)

\* The bins whose count is strictly below the 20th percentile of the counts.
BinsBelowCutoff(counts) ==
    LET cutoff == Percentile(counts, CutoffPercentile)
    IN  {b \in 0..(bins - 1) : counts[b + 1] * cutoff.den < cutoff.num}

\* The bins that share the minimum count.
BinsAtMinimum(counts) ==
    LET least == MinOf(ValuesOf(counts))
    IN  {b \in 0..(bins - 1) : counts[b + 1] = least}

LowerEdge(values, b) ==
    BinEdge(b, MinOf(ValuesOf(values)), MaxOf(ValuesOf(values)))

\* C21 as stated: in particular, the result is the 95th percentile of the raw
\* values whenever at least a fifth of the bins share the minimum count.
C21_AsClaimed ==
    EstimatorCalled =>
        LET counts == BinCounts(call.values)
        IN  5 * Cardinality(BinsAtMinimum(counts)) >= bins
                => result.threshold = Percentile(call.values, FallbackPercentile)

\* C21: _compute_threshold returns the lower edge of the first bin, in
\* ascending order, whose count is strictly below the 20th percentile of the
\* bin counts, and the 95th percentile of the raw values when there is no
\* such bin; there is no such bin exactly when more than a fifth of the bins
\* share the minimum count.
C21_ValleyOrFallback ==
    EstimatorCalled =>
        LET counts == BinCounts(call.values)
            below == BinsBelowCutoff(counts)
        IN  /\ below # {} =>
                /\ result.threshold = LowerEdge(call.values, MinOf(below))
                /\ \A b \in 0..(MinOf(below) - 1) : b \notin below
            /\ below = {} =>
                result.threshold = Percentile(call.values, FallbackPercentile)
            /\ (below = {}) <=>
                (5 * Cardinality(BinsAtMinimum(counts)) > bins)

\* Exactly a fifth of the bins are empty and the first empty bin's lower edge
\* was returned.
C21_Witness ==
    /\ EstimatorCalled
    /\ LET atMin == BinsAtMinimum(BinCounts(call.values))
       IN  /\ 5 * Cardinality(atMin) = bins
           /\ 60 \in atMin
           /\ 59 \notin atMin
    /\ result.threshold = LowerEdge(call.values, 60)
    /\ result.threshold # Percentile(call.values, FallbackPercentile)

(***************************************************************************)
(* Further properties of the Population Graph Resolver.                    *)
(***************************************************************************)
\* C22: the resolver makes no pass after a pass that resolved nothing.  Every
\* pass made before a new pass begins has then resolved at least one
\* population, so a pass begins only while the passes made so far do not
\* outnumber the resolved populations.
C22_StopsAfterUnproductivePass ==
    [][(pc = "for" /\ pc' = "inner") =>
            passes <= Cardinality(DOMAIN gated)]_vars

\* C27: once pending is set up, at every point of the run pending and the
\* keys of the result mapping are disjoint and together are the declared
\* names; a name leaves pending in the step that stores it, and neither
\* does a name return to pending nor a key leave the result mapping.
C27_PendingResolvedPartition ==
    /\ [](pc # "start" =>
            /\ pending \cap DOMAIN gated = {}
            /\ pending \cup DOMAIN gated = DOMAIN celltypes)
    /\ [][pc # "start" =>
            /\ pending' \subseteq pending
            /\ DOMAIN gated \subseteq DOMAIN gated'
            /\ pending \ pending' = (DOMAIN gated') \ (DOMAIN gated)]_vars

\* In the middle of a pass one population is stored and another is still
\* pending.
C27_Witness ==
    /\ pc = "inner"
    /\ pending # {}
    /\ DOMAIN gated # {}
    /\ pending \cup DOMAIN gated = DOMAIN celltypes

AllReachRoot == \A n \in DOMAIN celltypes : ReachesRoot(n)

\* C28: when the parent graph is acyclic and has no dangling parent, the
\* unresolved-dependency error is never raised: while populations are
\* pending one of them is ready at the start of every pass, so a pass
\* resolves a population unless a gate raises; no more passes are made than
\* there are populations, and the mapping returned has exactly the declared
\* names.
C28_AcyclicGraphResolves ==
    AllReachRoot =>
        /\ error # "Unresolved"
        /\ passes <= NPopulations
        /\ (pc = "for" /\ pending # {}) =>
                /\ passes < max_iters
                /\ \E n \in pending : ParentTable(n).ready
        /\ pc = "for" => Cardinality(DOMAIN gated) >= passes
        /\ pc \in {"returned", "exported"} =>
                /\ pending = {}
                /\ DOMAIN populations = DOMAIN celltypes

\* A chain of three populations, visited child first, was returned after
\* three passes.
C28_Witness ==
    /\ pc = "returned"
    /\ AllReachRoot
    /\ passes = 3
    /\ ParentOf("C") = "B"
    /\ ParentOf("B") = "A"
    /\ DOMAIN populations = DOMAIN celltypes

\* C29: when the unresolved-dependency error is raised, the names it
\* carries are exactly the populations whose parent chain never reaches a
\* population with parent None (those on a cycle, those whose chain ends in
\* an undefined name, and their descendants), and every other population
\* is in the result mapping.
C29_UnresolvedAreUnreachable ==
    (pc = "raised" /\ error = "Unresolved") =>
        /\ unresolved = {n \in DOMAIN celltypes : ~ReachesRoot(n)}
        /\ DOMAIN gated = {n \in DOMAIN celltypes : ReachesRoot(n)}

\* The error carried a self-parent and its child while a root population was
\* resolved.
C29_Witness ==
    /\ pc = "raised"
    /\ error = "Unresolved"
    /\ ParentOf("A") = None
    /\ ParentOf("B") = "B"
    /\ ParentOf("C") = "B"
    /\ unresolved = {"B", "C"}
    /\ DOMAIN gated = {"A"}

(***************************************************************************)
(* Properties of the configuration loader.                                 *)
(***************************************************************************)
LoadCalled == call.op = "load_experiment" /\ result.done

\* Some celltype's parent is a non-null name that is not a key of celltypes.
DanglingParent(file) ==
    /\ file.kind = "document"
    /\ \E n \in DOMAIN file.celltypes :
            /\ file.celltypes[n].kind = "mapping"
            /\ file.celltypes[n].parent \notin DOMAIN file.celltypes \cup {None}

Pieces(text) == {text[i] : i \in 1..Len(text)}

RejectedNoSuchParent ==
    /\ ~result.ok
    /\ result.exc = ConfigError
    /\ NoSuchParent \in Pieces(result.text)

\* The file exists and parses, and the document passes the gate scan, the
\* schema, the panel check and the celltypes check.
ReachesParentCheck(file) ==
    /\ file.kind = "document"
    /\ file.has_celltypes
    /\ \A n \in DOMAIN file.celltypes :
            /\ file.celltypes[n].kind = "mapping"
            /\ file.celltypes[n].gate # "null"
    /\ ~file.schema_errors
    /\ file.panel.kind = "mapping"

\* C23 as stated: every configuration with a dangling parent is rejected
\* with a FACSForgeConfigError whose message contains 'no such parent'.
C23_AsClaimed ==
    (LoadCalled /\ DanglingParent(call.file)) => RejectedNoSuchParent

\* C23: load_experiment returns no configuration with a dangling parent; a
\* configuration that reaches the parent check is rejected there, with a
\* FACSForgeConfigError whose message contains 'no such parent', exactly
\* when some celltype's parent is a non-null name that is not a key of
\* celltypes.
C23_DanglingParentRejected ==
    LoadCalled =>
        /\ DanglingParent(call.file) => ~result.ok
        /\ ReachesParentCheck(call.file) =>
                (DanglingParent(call.file) <=> RejectedNoSuchParent)

\* A configuration whose first celltype is a root and whose second names an
\* undefined parent was rejected at the parent check.
C23_Witness ==
    /\ LoadCalled
    /\ ReachesParentCheck(call.file)
    /\ DOMAIN call.file.celltypes = {"A", "B"}
    /\ call.file.celltypes["A"].parent = None
    /\ call.file.celltypes["B"].parent = Ghost
    /\ RejectedNoSuchParent
    /\ result.text[2] = "B"

FluorsCalled == call.op = "_validate_fluorochromes" /\ result.done

\* Entries i and j of the panel are different channels with one non-null
\* fluorophore label.
SharedLabel(panel, i, j) ==
    /\ panel[i].channel # panel[j].channel
    /\ panel[i].fluor # None
    /\ panel[i].fluor = panel[j].fluor

\* C24: _validate_fluorochromes accepts a panel iff no non-null fluorophore
\* label is carried by two different channels; otherwise it raises
\* FACSForgeConfigError with a message naming a shared label and two
\* channels that carry it.  Channels with a null fluorophore never conflict.
C24_FluorochromeUnique ==
    FluorsCalled =>
        LET panel == call.panel
            idx == 1..Len(panel)
        IN  /\ result.ok <=> ~(\E i, j \in idx : SharedLabel(panel, i, j))
            /\ ~result.ok =>
                /\ result.exc = ConfigError
                /\ \E i, j \in idx :
                        /\ SharedLabel(panel, i, j)
                        /\ {panel[i].fluor, panel[i].channel, panel[j].channel}
                                \subseteq Pieces(result.text)

\* Two channels with one label, separated by a channel with another label,
\* were reported.
C24_Witness ==
    /\ FluorsCalled
    /\ Len(call.panel) = 3
    /\ call.panel[1].fluor = FITC
    /\ call.panel[2].fluor = PE
    /\ call.panel[3].fluor = FITC
    /\ ~result.ok
    /\ {FITC, call.panel[1].channel, call.panel[3].channel}
            \subseteq Pieces(result.text)

(***************************************************************************)
(* Properties of the FlowJo v9 converter.                                  *)
(***************************************************************************)
Converted == call.op = "convert_v9" /\ result.done

\* C25: after build_yaml_hierarchy, as used by convert_v9, every celltype's
\* parent is None or the name of a celltype of the same result, so the
\* configuration passes the parent check of load_experiment.
C25_ConvertedParentsDefined ==
    Converted =>
        /\ \A n \in DOMAIN result.celltypes :
                result.celltypes[n].parent \in DOMAIN result.celltypes \cup {None}
        /\ _validate_parents(result.celltypes).ok

\* A celltype whose `parent' attribute named an undefined population and
\* whose enclosing population is no celltype came out as a root, next to a
\* celltype that got a defined parent.
C25_Witness ==
    /\ Converted
    /\ DOMAIN result.celltypes = {"A", "B"}
    /\ call.root.celltypes["A"].parent = Ghost
    /\ GidOf("A", call.root.gate_names) # None
    /\ PopOfGate(GidOf("A", call.root.gate_names), call.root.pop_gateid) = "A"
    /\ call.root.pop_parent["A"] = "X"
    /\ result.celltypes["A"].parent = None
    /\ result.celltypes["B"].parent = "A"

(***************************************************************************)
(* Properties of the logicle initialisation.                               *)
(***************************************************************************)
\* C26: over any sequence of calls of get_logicle and init_logicle the import
\* of the logicle module is attempted at most once, whether the first
\* attempt succeeds or fails, and every later call returns the pair the
\* first call returned.
C26_InitializedOnce ==
    /\ pita.imports <= 1
    /\ \A i \in 1..Len(pita.returned) :
            /\ pita.returned[i].has_logicle = pita.returned[1].has_logicle
            /\ pita.returned[i].function = pita.returned[1].function

(***************************************************************************)
(* Properties of the web editor.                                           *)
(***************************************************************************)
\* The payload is a dict whose entries are dicts that have 'gate' and whose
\* positive and negative, where given, are lists.
FullyValid(payload) ==
    /\ payload.kind = "mapping"
    /\ \A n \in DOMAIN payload.entries :
            LET info == payload.entries[n]
            IN  /\ info.kind = "mapping"
                /\ info.gate.kind # "absent"
                /\ info.positive.kind \in {"absent", "list"}
                /\ info.negative.kind \in {"absent", "list"}

\* The step answers a POST to /api/gates.
AnswersPostGates == call'.op = "POST /api/gates" /\ result'.done

\* C30: a POST to /api/gates with a payload that is not fully valid is
\* answered 400 and leaves CONFIG_DATA["celltypes"] and the config file as
\* they were; a fully valid payload is answered 200, becomes
\* CONFIG_DATA["celltypes"], and save_config writes it to the file at
\* CONFIG_PATH.
C30_PostGatesAllOrNothing ==
    [][AnswersPostGates =>
        IF FullyValid(call'.payload)
        THEN /\ result'.status = 200
             /\ webapp'.has_celltypes
             /\ DOMAIN webapp'.celltypes = DOMAIN call'.payload.entries
             /\ \A n \in DOMAIN webapp'.celltypes :
                    /\ webapp'.celltypes[n].gate = call'.payload.entries[n].gate
                    /\ webapp'.celltypes[n].positive.kind = "list"
                    /\ webapp'.celltypes[n].negative.kind = "list"
             /\ webapp'.CONFIG_PATH # None =>
                    /\ webapp'.file_has_celltypes
                    /\ webapp'.file = webapp'.celltypes
        ELSE /\ result'.status = 400
             /\ webapp'.has_celltypes = webapp.has_celltypes
             /\ webapp'.celltypes = webapp.celltypes
             /\ webapp'.file_has_celltypes = webapp.file_has_celltypes
             /\ webapp'.file = webapp.file]_vars

\* A payload whose first entry is valid and whose second entry lacks 'gate'
\* was answered 400 while the file and the memory held another gate set.
C30_Witness ==
    /\ call.op = "POST /api/gates"
    /\ result.done
    /\ result.status = 400
    /\ call.payload.kind = "mapping"
    /\ DOMAIN call.payload.entries = GateKeys
    /\ EntryError(call.payload.entries["Singlets"]) = "none"
    /\ call.payload.entries["Tcells"].kind = "mapping"
    /\ call.payload.entries["Tcells"].gate = Missing_
    /\ webapp.CONFIG_PATH # None
    /\ DOMAIN webapp.celltypes = {"Tcells"}
    /\ webapp.file = webapp.celltypes

====
